---- MODULE Spec2Model ----
(***************************************************************************)
(* Resource discovery and namespace-resource caching of the Kubernetes     *)
(* object explorer: the k8s Client (GetAPIResources,                       *)
(* GetResourcesInNamespace, GetResourcesInNamespaceWithCallback,           *)
(* countResourceObjects) and the Server handlers that drive it.            *)
(*                                                                         *)
(* Strings are sequences of tokens: "pods/log" is <<"pods", "/", "log">>,  *)
(* so that strings.Contains and ParseGroupVersion are computed, not        *)
(* looked up.  No token other than "/" holds a '/' character.              *)
(*                                                                         *)
(* Time is counted in minutes, the unit of cacheTTL.  Time passes only     *)
(* while some request waits for a remote call or while no request is in    *)
(* flight: cache lookups and filtering are in-memory operations.           *)
(***************************************************************************)
EXTENDS Integers, Sequences, FiniteSets, TLC

----------------------------------------------------------------------------
(* Bounds of the model *)

\* the clock stops advancing at MaxTime minutes
MaxTime == 6
\* at most MaxRequests requests are started in one sequential behaviour
MaxRequests == 2
\* at most MaxRacing requests are started in one concurrent behaviour
MaxRacing == 3
\* a list call reports between 0 and MaxItems objects
MaxItems == 1
\* a discovery response holds at most MaxLists group/version lists
MaxLists == 2
\* the catalog a debug stream scans has MaxTypes resource types
MaxTypes == 75

----------------------------------------------------------------------------
(* Program constants *)

\* cacheTTL: 5 * time.Minute
cacheTTL == 5

\* debugOutput := make(chan string, 100)
debugOutputCap == 100

Namespaces == {"default", "kube-system"}

\* the request goroutines the HTTP server may run at once
Procs == {1, 2}

NoErr == <<>>

----------------------------------------------------------------------------
(* String helpers *)

\* strings.Contains(s, tok) for a one-token needle
Contains(s, tok) == \E k \in 1..Len(s) : s[k] = tok

\* strings.Count(s, tok)
Count(s, tok) == Cardinality({k \in 1..Len(s) : s[k] = tok})

\* strings.Index(s, tok), 0 when absent
Index(s, tok) ==
    IF Contains(s, tok)
    THEN CHOOSE k \in 1..Len(s) : s[k] = tok /\ \A j \in 1..(k - 1) : s[j] # tok
    ELSE 0

\* the decimal digits of n, as strconv writes them
RECURSIVE Digits(_)
Digits(n) ==
    IF n < 10 THEN <<ToString(n)>> ELSE Append(Digits(n \div 10), ToString(n % 10))

\* the numbers that occur in the names of the model's resource types
Numerals == 0..(MaxTypes + 10)

\* a Go string as its characters, for the words the model's names, kinds and
\* search terms are made of
Chars(word) ==
    CASE word = "" -> <<>>
      [] word = "/" -> <<"/">>
      [] word = "pods" -> <<"p", "o", "d", "s">>
      [] word = "log" -> <<"l", "o", "g">>
      [] word = "bindings" -> <<"b", "i", "n", "d", "i", "n", "g", "s">>
      [] word = "nodes" -> <<"n", "o", "d", "e", "s">>
      [] word = "deployments" -> <<"d", "e", "p", "l", "o", "y", "m", "e", "n", "t", "s">>
      [] word = "widgets" -> <<"w", "i", "d", "g", "e", "t", "s">>
      [] word = "services" -> <<"s", "e", "r", "v", "i", "c", "e", "s">>
      [] word = "configmaps" -> <<"c", "o", "n", "f", "i", "g", "m", "a", "p", "s">>
      [] word = "secrets" -> <<"s", "e", "c", "r", "e", "t", "s">>
      [] word = "Pod" -> <<"P", "o", "d">>
      [] word = "PodMetrics" -> <<"P", "o", "d", "M", "e", "t", "r", "i", "c", "s">>
      [] word = "Binding" -> <<"B", "i", "n", "d", "i", "n", "g">>
      [] word = "Node" -> <<"N", "o", "d", "e">>
      [] word = "Deployment" -> <<"D", "e", "p", "l", "o", "y", "m", "e", "n", "t">>
      [] word = "Service" -> <<"S", "e", "r", "v", "i", "c", "e">>
      [] word = "ConfigMap" -> <<"C", "o", "n", "f", "i", "g", "M", "a", "p">>
      [] word = "Secret" -> <<"S", "e", "c", "r", "e", "t">>
      [] word = "Widget" -> <<"W", "i", "d", "g", "e", "t">>
      [] word = "Po" -> <<"P", "o">>
      [] word \in {ToString(n) : n \in Numerals} ->
            Digits(CHOOSE n \in Numerals : ToString(n) = word)

\* the characters of a string held as a sequence of words
RECURSIVE Spell(_)
Spell(s) == IF s = <<>> THEN <<>> ELSE Chars(Head(s)) \o Spell(Tail(s))

UpperLetters ==
    <<"A", "B", "C", "D", "E", "F", "G", "H", "I", "J", "K", "L", "M",
      "N", "O", "P", "Q", "R", "S", "T", "U", "V", "W", "X", "Y", "Z">>

LowerLetters ==
    <<"a", "b", "c", "d", "e", "f", "g", "h", "i", "j", "k", "l", "m",
      "n", "o", "p", "q", "r", "s", "t", "u", "v", "w", "x", "y", "z">>

\* unicode.ToLower on one character
ToLowerChar(c) ==
    IF \E i \in 1..Len(UpperLetters) : UpperLetters[i] = c
    THEN LowerLetters[CHOOSE i \in 1..Len(UpperLetters) : UpperLetters[i] = c]
    ELSE c

\* strings.ToLower(s), s a sequence of characters
ToLower(s) == [k \in 1..Len(s) |-> ToLowerChar(s[k])]

\* strings.Contains(s, substr) on sequences of characters
StringsContains(s, substr) ==
    \E i \in 0..(Len(s) - Len(substr)) : SubSeq(s, i + 1, i + Len(substr)) = substr

\* schema.ParseGroupVersion
ParseGroupVersion(gv) ==
    IF Len(gv) = 0 \/ gv = <<"/">>
    THEN [ok |-> TRUE, Group |-> <<>>, Version |-> <<>>]
    ELSE IF Count(gv, "/") = 0
    THEN [ok |-> TRUE, Group |-> <<>>, Version |-> gv]
    ELSE IF Count(gv, "/") = 1
    THEN [ok |-> TRUE,
          Group |-> SubSeq(gv, 1, Index(gv, "/") - 1),
          Version |-> SubSeq(gv, Index(gv, "/") + 1, Len(gv))]
    ELSE [ok |-> FALSE, Group |-> <<>>, Version |-> <<>>]

----------------------------------------------------------------------------
(* The cluster: what discovery and list calls may answer *)

\* metav1.APIResource as discovery reports it
APIResource(name, kind, short, namespaced) ==
    [Name |-> name, Kind |-> kind, ShortNames |-> short, Namespaced |-> namespaced]

CoreList ==
    [GroupVersion |-> <<"v1">>,
     APIResources |-> << APIResource(<<"pods">>, "Pod", <<"po">>, TRUE),
                         APIResource(<<"pods", "/", "log">>, "Pod", <<>>, TRUE),
                         APIResource(<<"bindings">>, "Binding", <<>>, TRUE),
                         APIResource(<<"nodes">>, "Node", <<"no">>, FALSE) >>]

AppsList ==
    [GroupVersion |-> <<"apps", "/", "v1">>,
     APIResources |-> << APIResource(<<"deployments">>, "Deployment", <<"deploy">>, TRUE) >>]

\* an older version of the apps group, serving the same resource
AppsBetaList ==
    [GroupVersion |-> <<"apps", "/", "v1beta1">>,
     APIResources |-> << APIResource(<<"deployments">>, "Deployment", <<"deploy">>, TRUE) >>]

\* another group that defines a resource of the same plural name
ExtensionsList ==
    [GroupVersion |-> <<"extensions", "/", "v1beta1">>,
     APIResources |-> << APIResource(<<"deployments">>, "Deployment", <<"deploy">>, TRUE) >>]

\* a list whose groupVersion string does not parse
BadList ==
    [GroupVersion |-> <<"example.com", "/", "v1", "/", "beta">>,
     APIResources |-> << APIResource(<<"widgets">>, "Widget", <<>>, TRUE) >>]

\* a cluster of MaxTypes resource types in groups of ten, each type holding
\* objects: the list of its g-th group
WideList(g) ==
    [GroupVersion |-> <<"example", ToString(g), "/", "v1">>,
     APIResources |-> [k \in 1..(IF 10 * g <= MaxTypes THEN 10
                                                      ELSE MaxTypes - 10 * (g - 1)) |->
                          APIResource(<<"widgets", ToString(10 * (g - 1) + k)>>,
                                      "Widget", <<>>, TRUE)]]

ServerLists == {CoreList, AppsList, AppsBetaList, ExtensionsList, BadList}

\* sequences without repetition over S, of length at most n
RECURSIVE SeqsUpTo(_, _)
SeqsUpTo(S, n) ==
    IF n = 0 THEN {<<>>}
    ELSE LET shorter == SeqsUpTo(S, n - 1)
         IN  shorter \cup
             {Append(s, x) : s \in {t \in shorter : Len(t) = n - 1},
                             x \in S}

NoRepeat(s) == \A a, b \in 1..Len(s) : a # b => s[a] # s[b]

\* what ServerPreferredNamespacedResources may return: the lists it got and
\* err: "nil", "groupFailed" (ErrGroupDiscoveryFailed) or "other"
DiscoveryResponses ==
    {[lists |-> l, err |-> e] :
        l \in {s \in SeqsUpTo(ServerLists, MaxLists) : NoRepeat(s)},
        e \in {"nil", "groupFailed"}}
    \cup {[lists |-> <<>>, err |-> "other"]}

\* a failed list call's error text
ErrForbidden == <<"pods", "is", "forbidden">>
ErrMethod == <<"the", "server", "does not allow this method", "on", "the", "requested", "resource">>
ErrTimeout == <<"context", "deadline", "exceeded">>

ListOk(c, n) == [err |-> NoErr, continue |-> c, items |-> n]
ListErr(e) == [err |-> e, continue |-> FALSE, items |-> 0]

\* what one dynamic-client List call may answer
ListResponses ==
    {ListOk(c, n) : c \in BOOLEAN, n \in 0..MaxItems}
    \cup {ListErr(e) : e \in {ErrForbidden, ErrMethod, ErrTimeout}}

\* the cluster the scans run against, by the List call of
\* countResourceObjects that is answered (1: the first, 2: the unbounded one
\* after a continue token): pods come and go and their lists may go on, the
\* list of the first widget type goes on, bindings cannot be listed,
\* deployments are empty, forbidden or slow, each of the many widget types
\* holds one object, everything else is empty
ListAnswers(name, nth) ==
    IF name = <<"pods">>
    THEN (IF nth = 1 THEN {ListOk(c, n) : c \in BOOLEAN, n \in 0..MaxItems}
          ELSE ListResponses)
    ELSE IF Len(name) = 2 /\ name[1] = "widgets"
    THEN (IF nth = 1 /\ name[2] = "1" THEN {ListOk(TRUE, 1)} ELSE {ListOk(FALSE, 1)})
    ELSE IF name = <<"bindings">> THEN {ListErr(ErrMethod)}
    ELSE IF name = <<"deployments">>
    THEN {ListOk(FALSE, 0), ListErr(ErrForbidden), ListErr(ErrTimeout)}
    ELSE {ListOk(FALSE, 0)}

\* the discovery answers the scans run against
ScanResponses ==
    { [lists |-> <<CoreList, AppsList>>, err |-> "nil"],
      [lists |-> <<CoreList>>, err |-> "groupFailed"],
      [lists |-> <<>>, err |-> "groupFailed"],
      [lists |-> <<>>, err |-> "other"] }

\* the discovery answers the debug streams run against
StreamResponses ==
    { [lists |-> [g \in 1..((MaxTypes + 9) \div 10) |-> WideList(g)], err |-> "nil"],
      [lists |-> <<>>, err |-> "other"] }

----------------------------------------------------------------------------
(* ResourceInfo and the pure parts of the Client *)

ResourceInfo(name, full, display, kind, short, group, version, namespaced) ==
    [Name |-> name, FullName |-> full, DisplayName |-> display, Kind |-> kind,
     ShortName |-> short, APIGroup |-> group, APIVersion |-> version,
     Namespaced |-> namespaced, Count |-> 0]

\* coreResources with its last entry lost
coreResourcesCut ==
    << [Name |-> <<"pods">>, FullName |-> <<"pods">>, DisplayName |-> <<"pods">>,
        Kind |-> "Pod", ShortName |-> "po", APIGroup |-> <<>>, APIVersion |-> <<"v1">>,
        Namespaced |-> TRUE, Count |-> 0] >>

\* the minimal set GetAPIResources falls back to
coreResources ==
    << ResourceInfo(<<"pods">>, <<"pods">>, <<"pods">>, "Pod", "po", <<>>, <<"v1">>, TRUE),
       ResourceInfo(<<"services">>, <<"services">>, <<"services">>, "Service", "svc", <<>>, <<"v1">>, TRUE),
       ResourceInfo(<<"configmaps">>, <<"configmaps">>, <<"configmaps">>, "ConfigMap", "cm", <<>>, <<"v1">>, TRUE),
       ResourceInfo(<<"secrets">>, <<"secrets">>, <<"secrets">>, "Secret", "", <<>>, <<"v1">>, TRUE),
       ResourceInfo(<<"deployments">>, <<"deployments", ".", "apps">>,
                    <<"deployments", " (", "apps", ")">>, "Deployment", "deploy",
                    <<"apps">>, <<"v1">>, TRUE) >>

\* ConvertResource with the group put in front of the name
ConvertResourceGroupFirst(resource, gv) ==
    ResourceInfo(resource.Name,
                 IF gv.Group # <<>> THEN gv.Group \o <<".">> \o resource.Name
                                    ELSE resource.Name,
                 IF gv.Group # <<>> THEN resource.Name \o <<" (">> \o gv.Group \o <<")">>
                                    ELSE resource.Name,
                 resource.Kind,
                 IF Len(resource.ShortNames) > 0 THEN resource.ShortNames[1] ELSE "",
                 gv.Group, gv.Version, resource.Namespaced)

\* one iteration of the inner loop of GetAPIResources: the ResourceInfo of a
\* discovered resource (the subresource test is in ListResources)
ConvertResource(resource, gv) ==
    ResourceInfo(resource.Name,
                 IF gv.Group # <<>> THEN resource.Name \o <<".">> \o gv.Group
                                    ELSE resource.Name,
                 IF gv.Group # <<>> THEN resource.Name \o <<" (">> \o gv.Group \o <<")">>
                                    ELSE resource.Name,
                 resource.Kind,
                 IF Len(resource.ShortNames) > 0 THEN resource.ShortNames[1] ELSE "",
                 gv.Group, gv.Version, resource.Namespaced)

\* IsSubresource with the subresource test forgotten
IsSubresourceNever(resource) == FALSE

\* strings.Contains(resource.Name, "/"): a subresource
IsSubresource(resource) == Contains(resource.Name, "/")

\* the inner loop of GetAPIResources over one resource list
RECURSIVE ConvertFrom(_, _, _)
ConvertFrom(apiResources, gv, k) ==
    IF k > Len(apiResources) THEN <<>>
    ELSE IF IsSubresource(apiResources[k]) THEN ConvertFrom(apiResources, gv, k + 1)
    ELSE <<ConvertResource(apiResources[k], gv)>> \o ConvertFrom(apiResources, gv, k + 1)

\* one iteration of the outer loop: a list whose groupVersion fails to parse
\* is skipped
ListResources(resourceList) ==
    LET gv == ParseGroupVersion(resourceList.GroupVersion)
    IN  IF ~gv.ok THEN <<>> ELSE ConvertFrom(resourceList.APIResources, gv, 1)

\* the outer loop of GetAPIResources
RECURSIVE BuildResources(_, _)
BuildResources(resourceLists, k) ==
    IF k > Len(resourceLists) THEN <<>>
    ELSE ListResources(resourceLists[k]) \o BuildResources(resourceLists, k + 1)

\* the resource names a plain namespace scan never counts
skipResources ==
    { <<"bindings">>, <<"localsubjectaccessreviews">>, <<"selfsubjectaccessreviews">>,
      <<"selfsubjectrulesreviews">>, <<"uploadtokenrequests">>, <<"tokenrequests">>,
      <<"subjectaccessreviews">> }

\* the filter of GetResourcesInNamespace
KeepPlain(resource) == resource.Namespaced /\ resource.Name \notin skipResources

\* the filter of GetResourcesInNamespaceWithCallback
KeepCallback(resource) == resource.Namespaced

\* FilterNamespaced with the kept resources in reverse order
FilterNamespacedReversed(op, resources) ==
    LET kept == IF op = "plain" THEN SelectSeq(resources, KeepPlain)
                                ELSE SelectSeq(resources, KeepCallback)
    IN  [k \in 1..Len(kept) |-> kept[Len(kept) + 1 - k]]

FilterNamespaced(op, resources) ==
    IF op = "plain" THEN SelectSeq(resources, KeepPlain)
                    ELSE SelectSeq(resources, KeepCallback)

\* NewClient sets every client, or returns no Client at all
dynamicClient == TRUE

\* countResourceObjects with the continuation token ignored: the first
\* response's items are the count
countResourceObjectsFirstPage(first, second) ==
    IF ~dynamicClient THEN [count |-> 0, err |-> <<"no dynamic client available">>, lists |-> 0]
    ELSE IF first.err # NoErr THEN [count |-> 0, err |-> first.err, lists |-> 1]
    ELSE [count |-> first.items, err |-> NoErr, lists |-> 1]

\* countResourceObjects: the count, the error, and the List calls it made
countResourceObjects(first, second) ==
    IF ~dynamicClient THEN [count |-> 0, err |-> <<"no dynamic client available">>, lists |-> 0]
    ELSE IF first.err # NoErr THEN [count |-> 0, err |-> first.err, lists |-> 1]
    ELSE IF first.continue
    THEN IF second.err # NoErr THEN [count |-> 0, err |-> second.err, lists |-> 2]
         ELSE [count |-> second.items, err |-> NoErr, lists |-> 2]
    ELSE [count |-> first.items, err |-> NoErr, lists |-> 1]

\* IsPermissionError with the "does not allow this method" test lost
IsPermissionErrorForbiddenOnly(err) == Contains(err, "forbidden")

\* the error branch of the counting loop: an expected permission error
IsPermissionError(err) ==
    Contains(err, "does not allow this method") \/ Contains(err, "forbidden")

\* CountValue with a failed count stored as -1
CountValueMinusOne(res) == IF res.err # NoErr THEN -1 ELSE res.count

\* the Count the counting loop stores for one resource
CountValue(res) == IF res.err # NoErr THEN 0 ELSE res.count

----------------------------------------------------------------------------
(* State *)

VARIABLES
    now,                  \* the clock, in minutes
    resourcesCache,       \* Client.resourcesCache
    resourcesCacheTime,   \* Client.resourcesCacheTime
    namespaceCaches,      \* Client.namespaceCaches: a map, namespace -> list
    namespaceCacheTimes,  \* Client.namespaceCacheTimes: a map, namespace -> time
    pc,                   \* where each request goroutine stands
    req,                  \* its request: entry point, namespace, serial number
    cachedResources,      \* its local cachedResources
    resources,            \* its local resources, the catalog it got
    namespacedResources,  \* its local namespacedResources
    idx,                  \* its position in the counting loop
    ret,                  \* what its call returned
    reqSeq,               \* requests started so far
    calls,                \* remote calls each request has made
    obs,                  \* what each request observed of the shared cache
    nsTag,                \* which scan wrote each namespace's list and time
    catTag,               \* which request's discovery wrote the catalog's list
                          \* and which wrote its time
    timing,               \* whether the history of catalog fetch times is kept
    lastOk,               \* the list last returned for each namespace
    counted,              \* resource names handed to countResourceObjects
    cleared,              \* clearCache has returned and no request came since
    crashed,              \* the runtime ended the process
    outbox,               \* messages a request is about to hand to debugCallback
    events,               \* debugCallback invocations of each request, in order
    warnings,             \* "Warning: Failed to count ..." log lines of each request
    countLog,             \* the error of each countResourceObjects call, in order
    debugOutput,          \* getDebugStream's channel: its buffer, whether closed
    stream,               \* getDebugStream's handler: its position, its context,
                          \* what it wrote to the response
    listLog,              \* the last countResourceObjects call of each request:
                          \* what its List calls answered and what it returned
    server,               \* the Server: whether it has a k8sClient, its debug flag
    http                  \* the request a handler serves and its response

clientVars == <<resourcesCache, resourcesCacheTime, namespaceCaches, namespaceCacheTimes>>
localVars == <<pc, req, cachedResources, resources, namespacedResources, idx, ret>>
ghostVars == <<reqSeq, calls, obs, nsTag, catTag, timing, lastOk, counted, cleared,
               crashed>>
streamVars == <<debugOutput, stream>>
serverVars == <<server, http>>
ioVars == <<outbox, events, warnings, countLog, listLog, streamVars, serverVars>>
vars == <<now, clientVars, localVars, ghostVars, ioVars>>

\* the zero time.Time: further in the past than any TTL
ZeroTime == -1000000

\* in the history kept of a stored list, the finishing time of a scan that
\* has stored its list and not yet its timestamp: later than every clock value
NotFinished == -ZeroTime

\* no channel made yet.  seq: for each buffered message, its place in the
\* order in which the goroutine handed its messages over
NoChan == [buf |-> <<>>, closed |-> FALSE, seq |-> <<>>]
\* no getDebugStream request yet.  handler: where the handler stands; base:
\* the requests started before it; ctxDone: r.Context() is cancelled;
\* written: the events written to the response; dropped: callback messages
\* given up after the one-second wait; midScan: the scan was running when the
\* context was cancelled; order: for each message written to the response,
\* its place in the order in which the goroutine handed its messages over;
\* msg: the message the range loop has received and not yet written
NoStream == [handler |-> "none", ns |-> "none", base |-> 0, ctxDone |-> FALSE,
             written |-> <<>>, dropped |-> 0, midScan |-> FALSE,
             order |-> <<>>, msg |-> <<>>, sent |-> FALSE]

\* no countResourceObjects call yet
NoList == [called |-> FALSE, first |-> <<>>, second |-> <<>>, count |-> 0,
           err |-> NoErr, lists |-> 0]
\* no request being served.  handler: the handler that serves the request;
\* phase: where it stands; query: the request's parameters; base: the Client
\* calls started before it; status, resources, totalObjects: its response
NoQuery == [ns |-> "none", search |-> "", populated |-> FALSE, apiGroup |-> <<>>]
\* identifier: the {resource} of the path; target: targetResource of the
\* lookup, empty for nil
NoHttp == [handler |-> "none", phase |-> "none", query |-> NoQuery, base |-> 0,
           status |-> 0, resources |-> <<>>, totalObjects |-> 0,
           identifier |-> <<>>, target |-> <<>>]

NoResp == [lists |-> <<>>, err |-> "none"]
NoReq == [op |-> "none", ns |-> "none", id |-> 0, debug |-> FALSE]
NoRet == [kind |-> "none", list |-> <<>>, err |-> NoErr]
NoCalls == [disc |-> 0, count |-> 0, list |-> 0]
\* catTime: when the catalog the request works on was fetched; catRead: when
\* GetAPIResources handed it to the request
NoObs == [entry |-> "unchecked", stamp |-> ZeroTime, listBy |-> 0, timeBy |-> 0,
          listEnd |-> ZeroTime, hitAt |-> ZeroTime, afterClear |-> FALSE,
          resp |-> NoResp, catTime |-> ZeroTime, catRead |-> ZeroTime]

\* a time as the history of catalog fetch times keeps it, when it is kept
Timed(t) == IF timing THEN t ELSE ZeroTime

\* m[k] = v on a Go map
MapPut(m, k, v) == [x \in DOMAIN m \cup {k} |-> IF x = k THEN v ELSE m[x]]

\* NewClient: empty caches, TTL set; no request yet
InitState ==
    /\ now = 0
    /\ resourcesCache = <<>>
    /\ resourcesCacheTime = ZeroTime
    /\ namespaceCaches = <<>>
    /\ namespaceCacheTimes = <<>>
    /\ pc = [p \in Procs |-> "idle"]
    /\ req = [p \in Procs |-> NoReq]
    /\ cachedResources = [p \in Procs |-> <<>>]
    /\ resources = [p \in Procs |-> <<>>]
    /\ namespacedResources = [p \in Procs |-> <<>>]
    /\ idx = [p \in Procs |-> 0]
    /\ ret = [p \in Procs |-> NoRet]
    /\ reqSeq = 0
    /\ calls = [p \in Procs |-> NoCalls]
    /\ obs = [p \in Procs |-> NoObs]
    /\ nsTag = [n \in Namespaces |->
                   [listBy |-> 0, timeBy |-> 0, listEnd |-> ZeroTime,
                    catTime |-> ZeroTime, catRead |-> ZeroTime]]
    /\ catTag = [listBy |-> 0, timeBy |-> 0]
    /\ lastOk = [n \in Namespaces |-> [ok |-> FALSE, list |-> <<>>]]
    /\ counted = {}
    /\ cleared = FALSE
    /\ crashed = FALSE
    /\ outbox = [p \in Procs |-> <<>>]
    /\ events = [p \in Procs |-> <<>>]
    /\ warnings = [p \in Procs |-> <<>>]
    /\ countLog = [p \in Procs |-> <<>>]
    /\ debugOutput = NoChan
    /\ stream = NoStream
    /\ listLog = [p \in Procs |-> NoList]
    /\ http = NoHttp

\* main: NewClient succeeded and DEBUG is set
Init == InitState /\ server = [k8sClient |-> TRUE, debug |-> TRUE] /\ timing = FALSE

\* the same, the history of catalog fetch times kept
InitTimed == InitState /\ server = [k8sClient |-> TRUE, debug |-> TRUE] /\ timing = TRUE

\* main: NewClient succeeded or failed (the server starts without a client),
\* DEBUG is set or not
InitAny ==
    InitState /\ server \in [k8sClient : BOOLEAN, debug : BOOLEAN] /\ timing = FALSE

----------------------------------------------------------------------------
(* Steps of GetResourcesInNamespace and GetResourcesInNamespaceWithCallback *)

\* WithinTTL with no entry ever fresh
WithinTTLNever(t) == FALSE

\* WithinTTL with <= for <: an entry of age cacheTTL still served
WithinTTLInclusive(t) == now - t <= cacheTTL

\* time.Since(t) < c.cacheTTL
WithinTTL(t) == now - t < cacheTTL

\* a message handed to debugCallback: its kind, the number it carries, the
\* position in the counting loop it is about (0: none), and the number of
\* countResourceObjects calls that had returned when it was made
Msg(type, n, k, at) == [type |-> type, n |-> n, k |-> k, at |-> at]

\* CachedMsgs with the callback forgotten on a hit
CachedMsgsNone(op, cached) == <<>>

\* what a hit reports to the callback: "Using cached data"
CachedMsgs(op, cached) ==
    IF op = "callback" THEN <<Msg("cached", Len(cached), 0, 0)>> ELSE <<>>

\* what a miss reports to the callback: "No cache found ..., discovering"
StartMsgs(op) == IF op = "callback" THEN <<Msg("start", 0, 0, 0)>> ELSE <<>>

\* a request enters GetResourcesInNamespace (op = "plain") or
\* GetResourcesInNamespaceWithCallback (op = "callback").  debugMode of the
\* callback scan: DEBUG is "true" in the environment or not; the plain scan
\* uses its debugMode for log lines only
Call(p, op, n, max) ==
    /\ ~crashed
    /\ pc[p] = "idle"
    /\ reqSeq < max
    /\ reqSeq' = reqSeq + 1
    /\ \E d \in (IF op = "callback" THEN BOOLEAN ELSE {FALSE}) :
          req' = [req EXCEPT ![p] = [op |-> op, ns |-> n, id |-> reqSeq + 1,
                                     debug |-> d]]
    /\ obs' = [obs EXCEPT ![p] = [NoObs EXCEPT !.afterClear = cleared]]
    /\ cleared' = FALSE
    /\ pc' = [pc EXCEPT ![p] = "nsRead"]
    /\ UNCHANGED <<now, clientVars, cachedResources, resources,
                   namespacedResources, idx, ret, calls, nsTag, lastOk, catTag, timing, counted,
                   crashed, ioVars>>

\* a caller enters GetAPIResources directly, as the object lookups do
CallCatalog(p, max) ==
    /\ ~crashed
    /\ pc[p] = "idle"
    /\ reqSeq < max
    /\ reqSeq' = reqSeq + 1
    /\ req' = [req EXCEPT ![p] = [op |-> "catalog", ns |-> "none", id |-> reqSeq + 1,
                                   debug |-> FALSE]]
    /\ pc' = [pc EXCEPT ![p] = "catLen"]
    /\ UNCHANGED <<now, clientVars, cachedResources, resources,
                   namespacedResources, idx, ret, calls, obs, nsTag, lastOk,
                   catTag, timing, counted, cleared, crashed, ioVars>>

\* cachedResources, exists := c.namespaceCaches[namespace]; without an
\* entry the scan starts, and a callback is told "No cache found"
ReadCache(p) ==
    /\ ~crashed
    /\ pc[p] = "nsRead"
    /\ outbox[p] = <<>>
    /\ LET n == req[p].ns
       IN  IF n \in DOMAIN namespaceCaches
           THEN /\ cachedResources' = [cachedResources EXCEPT ![p] = namespaceCaches[n]]
                /\ pc' = [pc EXCEPT ![p] = "nsTime"]
                /\ obs' = [obs EXCEPT ![p].listBy = nsTag[n].listBy,
                                      ![p].listEnd = nsTag[n].listEnd]
                /\ outbox' = outbox
           ELSE /\ cachedResources' = [cachedResources EXCEPT ![p] = <<>>]
                /\ pc' = [pc EXCEPT ![p] = "catLen"]
                /\ obs' = [obs EXCEPT ![p].entry = "absent"]
                /\ outbox' = [outbox EXCEPT ![p] = StartMsgs(req[p].op)]
    /\ UNCHANGED <<now, clientVars, req, resources, namespacedResources, idx, ret,
                   reqSeq, calls, nsTag, lastOk, catTag, timing, counted, cleared, crashed,
                   events, warnings, countLog, listLog, streamVars, serverVars>>

\* reads c.namespaceCacheTimes[namespace] and tests the TTL: a hit returns
\* cachedResources.  With a callback, a hit reports "Using cached data" and a
\* miss reports "No cache found"
ReadCacheTime(p) ==
    /\ ~crashed
    /\ pc[p] = "nsTime"
    /\ outbox[p] = <<>>
    /\ LET n == req[p].ns
           timeExists == n \in DOMAIN namespaceCacheTimes
           cacheTime == IF timeExists THEN namespaceCacheTimes[n] ELSE ZeroTime
           seen == IF ~timeExists THEN "absent"
                   ELSE IF now - namespaceCacheTimes[n] < cacheTTL THEN "fresh"
                   ELSE "stale"
       IN  /\ obs' = [obs EXCEPT ![p].entry = seen, ![p].stamp = cacheTime,
                                 ![p].timeBy = nsTag[n].timeBy, ![p].hitAt = now]
           /\ IF timeExists /\ WithinTTL(cacheTime)
              THEN /\ ret' = [ret EXCEPT ![p] = [kind |-> "hit",
                                                 list |-> cachedResources[p],
                                                 err |-> NoErr]]
                   /\ pc' = [pc EXCEPT ![p] = "done"]
                   /\ outbox' = [outbox EXCEPT ![p] =
                          CachedMsgs(req[p].op, cachedResources[p])]
              ELSE /\ ret' = ret
                   /\ pc' = [pc EXCEPT ![p] = "catLen"]
                   /\ outbox' = [outbox EXCEPT ![p] = StartMsgs(req[p].op)]
    /\ UNCHANGED <<now, clientVars, req, cachedResources, resources,
                   namespacedResources, idx, reqSeq, calls, nsTag, lastOk,
                   catTag, timing, counted, cleared, crashed, events, warnings, countLog, listLog, streamVars, serverVars>>

\* what the callback scan reports between GetAPIResources and the counting
\* loop: "Found n API resource types", "Counting objects for m namespaced
\* resources"; and after an empty loop, "Resource discovery complete"
CatalogMsgs(res, filtered) ==
    << Msg("catalog", Len(res), 0, 0), Msg("counting", Len(filtered), 0, 0) >>
    \o (IF Len(filtered) = 0 THEN <<Msg("complete", 0, 0, 0)>> ELSE <<>>)

\* where iteration i of the counting loop starts: the callback scan in
\* debugMode reports "Counting objects for" in its first 15 iterations before
\* it calls countResourceObjects
IterationPc(op, debug, i) ==
    IF op = "callback" /\ debug /\ i <= 15 THEN "announce" ELSE "count"

\* GetAPIResources has returned res.  A scan filters it and starts the
\* counting loop (an empty loop goes straight to the cache write); a direct
\* caller has its result
AfterCatalog(p, res) ==
    LET filtered == FilterNamespaced(req[p].op, res)
    IN  /\ resources' = [resources EXCEPT ![p] = res]
        /\ IF req[p].op = "catalog"
           THEN /\ ret' = [ret EXCEPT ![p] = [kind |-> "catalog", list |-> res,
                                              err |-> NoErr]]
                /\ pc' = [pc EXCEPT ![p] = "done"]
                /\ UNCHANGED <<namespacedResources, idx, outbox>>
           ELSE /\ namespacedResources' = [namespacedResources EXCEPT ![p] = filtered]
                /\ idx' = [idx EXCEPT ![p] = 1]
                /\ pc' = [pc EXCEPT ![p] =
                             IF Len(filtered) = 0 THEN "nsW1"
                             ELSE IterationPc(req[p].op, req[p].debug, 1)]
                /\ ret' = ret
                /\ outbox' = [outbox EXCEPT ![p] =
                       IF req[p].op = "callback" THEN CatalogMsgs(res, filtered)
                       ELSE <<>>]

\* CatalogLen with the length test lost: the TTL alone decides
CatalogLenAny(p) ==
    /\ ~crashed
    /\ pc[p] = "catLen"
    /\ outbox[p] = <<>>
    /\ pc' = [pc EXCEPT ![p] = "catTime"]
    /\ UNCHANGED <<now, clientVars, req, cachedResources, resources,
                   namespacedResources, idx, ret, ghostVars, ioVars>>

\* GetAPIResources: len(c.resourcesCache) > 0
CatalogLen(p) ==
    /\ ~crashed
    /\ pc[p] = "catLen"
    /\ outbox[p] = <<>>
    /\ pc' = [pc EXCEPT ![p] = IF Len(resourcesCache) > 0 THEN "catTime" ELSE "discover"]
    /\ UNCHANGED <<now, clientVars, req, cachedResources, resources,
                   namespacedResources, idx, ret, ghostVars, ioVars>>

\* GetAPIResources: time.Since(c.resourcesCacheTime) < c.cacheTTL
CatalogTime(p) ==
    /\ ~crashed
    /\ pc[p] = "catTime"
    /\ outbox[p] = <<>>
    /\ pc' = [pc EXCEPT ![p] = IF WithinTTL(resourcesCacheTime) THEN "catRet" ELSE "discover"]
    /\ UNCHANGED <<now, clientVars, req, cachedResources, resources,
                   namespacedResources, idx, ret, ghostVars, ioVars>>

\* GetAPIResources: return c.resourcesCache, nil
CatalogReturn(p) ==
    /\ ~crashed
    /\ pc[p] = "catRet"
    /\ outbox[p] = <<>>
    /\ AfterCatalog(p, resourcesCache)
    /\ obs' = [obs EXCEPT ![p].catTime = Timed(resourcesCacheTime),
                          ![p].catRead = Timed(now)]
    /\ UNCHANGED <<now, clientVars, req, cachedResources, reqSeq, calls, nsTag,
                   catTag, timing, lastOk, counted, cleared, crashed, events,
                   warnings, countLog, listLog, streamVars, serverVars>>

\* Discover with every discovery error answered by the fallback set
DiscoverFallbackOnError(p, resp) ==
    /\ ~crashed
    /\ pc[p] = "discover"
    /\ outbox[p] = <<>>
    /\ calls' = [calls EXCEPT ![p].disc = @ + 1]
    /\ obs' = [obs EXCEPT ![p].resp = resp, ![p].catTime = Timed(now),
                          ![p].catRead = Timed(now)]
    /\ IF resp.err = "other" \/ (resp.err = "groupFailed" /\ Len(resp.lists) = 0)
       THEN AfterCatalog(p, coreResources)
       ELSE /\ resources' = [resources EXCEPT ![p] = BuildResources(resp.lists, 1)]
            /\ pc' = [pc EXCEPT ![p] = "catW1"]
            /\ UNCHANGED <<namespacedResources, idx, ret, outbox>>
    /\ UNCHANGED <<now, clientVars, req, cachedResources, reqSeq, nsTag, lastOk,
                   catTag, timing, counted, cleared, crashed, events, warnings, countLog, listLog, streamVars, serverVars>>

\* Discover with the fallback set stored like a discovered catalog
DiscoverStoringFallback(p, resp) ==
    /\ ~crashed
    /\ pc[p] = "discover"
    /\ outbox[p] = <<>>
    /\ calls' = [calls EXCEPT ![p].disc = @ + 1]
    /\ obs' = [obs EXCEPT ![p].resp = resp, ![p].catTime = Timed(now),
                          ![p].catRead = Timed(now)]
    /\ IF resp.err = "other"
       THEN /\ ret' = [ret EXCEPT ![p] = [kind |-> "error", list |-> <<>>,
                                          err |-> <<"failed to discover API resources">>]]
            /\ pc' = [pc EXCEPT ![p] = "done"]
            /\ UNCHANGED <<resources, namespacedResources, idx, outbox>>
       ELSE /\ resources' = [resources EXCEPT ![p] =
                   IF resp.err = "groupFailed" /\ Len(resp.lists) = 0
                   THEN coreResources ELSE BuildResources(resp.lists, 1)]
            /\ pc' = [pc EXCEPT ![p] = "catW1"]
            /\ UNCHANGED <<namespacedResources, idx, ret, outbox>>
    /\ UNCHANGED <<now, clientVars, req, cachedResources, reqSeq, nsTag, lastOk,
                   catTag, timing, counted, cleared, crashed, events, warnings, countLog, listLog, streamVars, serverVars>>

\* GetAPIResources: the discovery call and what is made of its answer
Discover(p, resp) ==
    /\ ~crashed
    /\ pc[p] = "discover"
    /\ outbox[p] = <<>>
    /\ calls' = [calls EXCEPT ![p].disc = @ + 1]
    /\ obs' = [obs EXCEPT ![p].resp = resp, ![p].catTime = Timed(now),
                          ![p].catRead = Timed(now)]
    /\ IF resp.err = "other"
       THEN /\ ret' = [ret EXCEPT ![p] = [kind |-> "error", list |-> <<>>,
                                          err |-> <<"failed to discover API resources">>]]
            /\ pc' = [pc EXCEPT ![p] = "done"]
            /\ UNCHANGED <<resources, namespacedResources, idx, outbox>>
       ELSE IF resp.err = "groupFailed" /\ Len(resp.lists) = 0
       THEN AfterCatalog(p, coreResources)
       ELSE /\ resources' = [resources EXCEPT ![p] = BuildResources(resp.lists, 1)]
            /\ pc' = [pc EXCEPT ![p] = "catW1"]
            /\ UNCHANGED <<namespacedResources, idx, ret, outbox>>
    /\ UNCHANGED <<now, clientVars, req, cachedResources, reqSeq, nsTag, lastOk,
                   catTag, timing, counted, cleared, crashed, events, warnings, countLog, listLog, streamVars, serverVars>>

\* GetAPIResources: c.resourcesCache = resources
CatalogWriteList(p) ==
    /\ ~crashed
    /\ pc[p] = "catW1"
    /\ outbox[p] = <<>>
    /\ resourcesCache' = resources[p]
    /\ catTag' = [catTag EXCEPT !.listBy = req[p].id]
    /\ pc' = [pc EXCEPT ![p] = "catW2"]
    /\ UNCHANGED <<now, resourcesCacheTime, namespaceCaches, namespaceCacheTimes,
                   req, cachedResources, resources, namespacedResources, idx, ret,
                   reqSeq, calls, obs, nsTag, timing, lastOk, counted, cleared,
                   crashed, ioVars>>

\* GetAPIResources: c.resourcesCacheTime = time.Now(), and the return
CatalogWriteTime(p) ==
    /\ ~crashed
    /\ pc[p] = "catW2"
    /\ outbox[p] = <<>>
    /\ resourcesCacheTime' = now
    /\ catTag' = [catTag EXCEPT !.timeBy = req[p].id]
    /\ AfterCatalog(p, resources[p])
    /\ obs' = [obs EXCEPT ![p].catTime = Timed(now), ![p].catRead = Timed(now)]
    /\ UNCHANGED <<now, resourcesCache, namespaceCaches, namespaceCacheTimes,
                   req, cachedResources, reqSeq, calls, nsTag, timing, lastOk,
                   counted, cleared, crashed, events, warnings, countLog, listLog,
                   streamVars, serverVars>>

\* CountMsgs with "Resource discovery complete" sent before the last
\* iteration's reports
CountMsgsCompleteEarly(i, total, debug, r) ==
    (IF i = total THEN <<Msg("complete", total, 0, i - 1)>> ELSE <<>>)
    \o (IF r.err = NoErr /\ r.count > 0 THEN <<Msg("found", r.count, i, i)>> ELSE <<>>)
    \o (IF i % 10 = 0 \/ i = total THEN <<Msg("progress", i, i, i)>> ELSE <<>>)

\* the callback scan in debugMode, first 15 iterations:
\* debugCallback("Counting objects for: ..."), before countResourceObjects
Announce(p) ==
    /\ ~crashed
    /\ pc[p] = "announce"
    /\ outbox[p] = <<>>
    /\ outbox' = [outbox EXCEPT ![p] = <<Msg("resource", 0, idx[p], idx[p] - 1)>>]
    /\ pc' = [pc EXCEPT ![p] = "count"]
    /\ UNCHANGED <<now, clientVars, req, cachedResources, resources,
                   namespacedResources, idx, ret, ghostVars, events, warnings,
                   countLog, listLog, streamVars, serverVars>>

\* what iteration i of the callback scan's counting loop reports once
\* countResourceObjects has returned r: "Permission denied (expected)"
\* (debugMode, first 15) or "n objects found" (n > 0), "Progress" (every
\* tenth and the last iteration; it carries processed and the total), and
\* after the last iteration "Resource discovery complete"
CountMsgs(i, total, debug, r) ==
    (IF r.err # NoErr
        THEN (IF IsPermissionError(r.err) /\ debug /\ i <= 15
              THEN <<Msg("denied", 0, i, i)>> ELSE <<>>)
        ELSE (IF r.count > 0 THEN <<Msg("found", r.count, i, i)>> ELSE <<>>))
    \o (IF i % 10 = 0 \/ i = total THEN <<Msg("progress", i, i, i)>> ELSE <<>>)
    \o (IF i = total THEN <<Msg("complete", total, 0, i)>> ELSE <<>>)

\* countResourceObjects has returned r to iteration i of the counting loop:
\* the Count stored for namespacedResources[i], the callback scan's reports,
\* and the next iteration or the end of the loop
CountReturn(p, r) ==
    LET i == idx[p]
    IN  /\ namespacedResources' =
              [namespacedResources EXCEPT ![p][i].Count = CountValue(r)]
        /\ calls' = [calls EXCEPT ![p].count = @ + 1, ![p].list = @ + 1]
        /\ idx' = [idx EXCEPT ![p] = i + 1]
        /\ pc' = [pc EXCEPT ![p] =
                     IF i = Len(namespacedResources[p]) THEN "nsW1"
                     ELSE IterationPc(req[p].op, req[p].debug, i + 1)]
        /\ outbox' = [outbox EXCEPT ![p] =
               IF req[p].op = "callback"
               THEN CountMsgs(i, Len(namespacedResources[p]), req[p].debug, r)
               ELSE <<>>]

\* one iteration of the counting loop calls countResourceObjects, whose first
\* List call (Limit 0) is answered.  An answer with a continue token sends
\* the function on to its second List call, where it waits again; any other
\* answer makes it return.  What the iteration writes to the process log is
\* in CountLogged; CountQuiet leaves the log out
CountStep(p, first) ==
    /\ ~crashed
    /\ pc[p] = "count"
    /\ outbox[p] = <<>>
    /\ first \in ListAnswers(namespacedResources[p][idx[p]].Name, 1)
    /\ counted' = counted \cup {namespacedResources[p][idx[p]].Name}
    /\ IF first.err = NoErr /\ first.continue
       THEN /\ pc' = [pc EXCEPT ![p] = "countAll"]
            /\ calls' = [calls EXCEPT ![p].list = @ + 1]
            /\ UNCHANGED <<namespacedResources, idx, outbox>>
       ELSE CountReturn(p, countResourceObjects(first, first))
    /\ UNCHANGED <<now, clientVars, req, cachedResources, resources, ret, reqSeq,
                   obs, nsTag, lastOk, catTag, timing, cleared, crashed, events, streamVars, serverVars>>

\* the second List call of countResourceObjects, the unbounded one made after
\* the first page first, is answered, and the function returns
CountAllStep(p, first, second) ==
    /\ ~crashed
    /\ pc[p] = "countAll"
    /\ second \in ListAnswers(namespacedResources[p][idx[p]].Name, 2)
    /\ CountReturn(p, countResourceObjects(first, second))
    /\ UNCHANGED <<now, clientVars, req, cachedResources, resources, ret, reqSeq,
                   obs, nsTag, lastOk, catTag, timing, counted, cleared, crashed, events,
                   streamVars, serverVars>>

\* the process log of an iteration whose countResourceObjects call has
\* returned: "Warning: Failed to count objects for resource ..." for an error
\* that is no permission error; and the history of the errors
\* countResourceObjects returned and of what its List calls answered
LogCount(p, first, second) ==
    LET i == idx[p]
        r == countResourceObjects(first, second)
    IN  /\ countLog' = [countLog EXCEPT ![p] = Append(@, r.err)]
        /\ listLog' = [listLog EXCEPT ![p] =
               [called |-> TRUE, first |-> first, second |-> second,
                count |-> r.count, err |-> r.err, lists |-> r.lists]]
        /\ warnings' = [warnings EXCEPT ![p] =
               IF r.err # NoErr /\ ~IsPermissionError(r.err)
               THEN Append(@, namespacedResources[p][i].Name) ELSE @]

\* the process log is not observed
CountQuiet(p, first) == CountStep(p, first) /\ UNCHANGED <<warnings, countLog, listLog>>

\* the first page is not kept: its items are never read once it carried a
\* continue token
CountAllQuiet(p, second) ==
    /\ pc[p] = "countAll"
    /\ \E first \in {f \in ListAnswers(namespacedResources[p][idx[p]].Name, 1) :
                        f.err = NoErr /\ f.continue} :
          CountAllStep(p, first, second)
    /\ UNCHANGED <<warnings, countLog, listLog>>

\* with the process log observed; the history keeps the first page while the
\* function waits for its second List call
CountLogged(p, first) ==
    /\ CountStep(p, first)
    /\ IF first.err = NoErr /\ first.continue
       THEN /\ listLog' = [listLog EXCEPT ![p] =
                   [NoList EXCEPT !.first = first, !.lists = 1]]
            /\ UNCHANGED <<warnings, countLog>>
       ELSE LogCount(p, first, first)

CountAllLogged(p, second) ==
    /\ CountAllStep(p, listLog[p].first, second)
    /\ LogCount(p, listLog[p].first, second)

\* ScanResult with the list stored as filtered, before the counting loop
ScanResultUncounted(p) == FilterNamespaced(req[p].op, resources[p])

\* the list a scan stores: namespacedResources, counted
ScanResult(p) == namespacedResources[p]

\* NsWriteList with namespacedResources sharing the catalog's storage: the
\* counted entries show in c.resourcesCache
NsWriteListAliased(p) ==
    /\ ~crashed
    /\ pc[p] = "nsW1"
    /\ outbox[p] = <<>>
    /\ namespaceCaches' = MapPut(namespaceCaches, req[p].ns, ScanResult(p))
    /\ resourcesCache' = ScanResult(p)
    /\ nsTag' = [nsTag EXCEPT ![req[p].ns].listBy = req[p].id,
                              ![req[p].ns].listEnd = NotFinished,
                              ![req[p].ns].catTime = obs[p].catTime,
                              ![req[p].ns].catRead = obs[p].catRead]
    /\ pc' = [pc EXCEPT ![p] = "nsW2"]
    /\ UNCHANGED <<now, resourcesCacheTime, namespaceCacheTimes,
                   req, cachedResources, resources, namespacedResources, idx, ret,
                   reqSeq, calls, obs, lastOk, catTag, timing, counted, cleared, crashed, ioVars>>

\* c.namespaceCaches[namespace] = namespacedResources
NsWriteList(p) ==
    /\ ~crashed
    /\ pc[p] = "nsW1"
    /\ outbox[p] = <<>>
    /\ namespaceCaches' = MapPut(namespaceCaches, req[p].ns, ScanResult(p))
    /\ nsTag' = [nsTag EXCEPT ![req[p].ns].listBy = req[p].id,
                              ![req[p].ns].listEnd = NotFinished,
                              ![req[p].ns].catTime = obs[p].catTime,
                              ![req[p].ns].catRead = obs[p].catRead]
    /\ pc' = [pc EXCEPT ![p] = "nsW2"]
    /\ UNCHANGED <<now, resourcesCache, resourcesCacheTime, namespaceCacheTimes,
                   req, cachedResources, resources, namespacedResources, idx, ret,
                   reqSeq, calls, obs, lastOk, catTag, timing, counted, cleared, crashed, ioVars>>

\* c.namespaceCacheTimes[namespace] = time.Now(), and the return
NsWriteTime(p) ==
    /\ ~crashed
    /\ pc[p] = "nsW2"
    /\ outbox[p] = <<>>
    /\ namespaceCacheTimes' = MapPut(namespaceCacheTimes, req[p].ns, now)
    /\ nsTag' = [nsTag EXCEPT ![req[p].ns].timeBy = req[p].id,
                              ![req[p].ns].listEnd =
                                  IF nsTag[req[p].ns].listBy = req[p].id
                                  THEN now ELSE @]
    /\ ret' = [ret EXCEPT ![p] = [kind |-> "scan", list |-> namespacedResources[p],
                                  err |-> NoErr]]
    /\ pc' = [pc EXCEPT ![p] = "done"]
    /\ UNCHANGED <<now, resourcesCache, resourcesCacheTime, namespaceCaches,
                   req, cachedResources, resources, namespacedResources, idx,
                   reqSeq, calls, obs, lastOk, catTag, timing, counted, cleared, crashed, ioVars>>

\* debugCallback(message) of a caller whose callback returns at once.  The
\* scan goes on when the callback has returned: every step of a request
\* waits for its outbox to be empty
Deliver(p) ==
    /\ ~crashed
    /\ outbox[p] # <<>>
    /\ events' = [events EXCEPT ![p] = Append(@, Head(outbox[p]))]
    /\ outbox' = [outbox EXCEPT ![p] = Tail(@)]
    /\ UNCHANGED <<now, clientVars, localVars, ghostVars, warnings, countLog, listLog, streamVars, serverVars>>

\* the caller has the result; the goroutine ends
Return(p) ==
    /\ ~crashed
    /\ pc[p] = "done"
    /\ outbox[p] = <<>>
    /\ lastOk' = IF ret[p].kind \in {"error", "catalog"} THEN lastOk
                 ELSE [lastOk EXCEPT ![req[p].ns] = [ok |-> TRUE, list |-> ret[p].list]]
    /\ pc' = [pc EXCEPT ![p] = "idle"]
    /\ req' = [req EXCEPT ![p] = NoReq]
    /\ cachedResources' = [cachedResources EXCEPT ![p] = <<>>]
    /\ resources' = [resources EXCEPT ![p] = <<>>]
    /\ namespacedResources' = [namespacedResources EXCEPT ![p] = <<>>]
    /\ idx' = [idx EXCEPT ![p] = 0]
    /\ ret' = [ret EXCEPT ![p] = NoRet]
    /\ calls' = [calls EXCEPT ![p] = NoCalls]
    /\ obs' = [obs EXCEPT ![p] = NoObs]
    /\ events' = [events EXCEPT ![p] = <<>>]
    /\ warnings' = [warnings EXCEPT ![p] = <<>>]
    /\ countLog' = [countLog EXCEPT ![p] = <<>>]
    /\ listLog' = [listLog EXCEPT ![p] = NoList]
    /\ UNCHANGED <<now, clientVars, reqSeq, nsTag, catTag, timing, counted, cleared, crashed, outbox, streamVars, serverVars>>

\* Server.clearCache: prints and answers "cache cleared"; the Client has no
\* method that drops its caches and none is called
clearCache ==
    /\ ~crashed
    /\ cleared' = TRUE
    /\ UNCHANGED <<now, clientVars, localVars, reqSeq, calls, obs, nsTag, lastOk,
                   catTag, timing, counted, crashed, ioVars>>

\* where a request waits for the cluster
RemotePcs == {"discover", "count", "countAll"}

\* time passes
Tick ==
    /\ now < MaxTime
    /\ (\A p \in Procs : pc[p] = "idle") \/ (\E p \in Procs : pc[p] \in RemotePcs)
    /\ now' = now + 1
    /\ UNCHANGED <<clientVars, localVars, ghostVars, ioVars>>

\* the Client's shared fields
SharedFields == {"resourcesCache", "resourcesCacheTime",
                 "namespaceCaches", "namespaceCacheTimes"}

\* the next statement of request p reads field v
Reading(p, v) ==
    \/ v = "namespaceCaches" /\ pc[p] = "nsRead"
    \/ v = "namespaceCacheTimes" /\ pc[p] = "nsTime"
    \/ v = "resourcesCache" /\ pc[p] \in {"catLen", "catRet"}
    \/ v = "resourcesCacheTime" /\ pc[p] \in {"catTime", "catRet"}

\* the next statement of request p writes field v
Writing(p, v) ==
    \/ v = "namespaceCaches" /\ pc[p] = "nsW1"
    \/ v = "namespaceCacheTimes" /\ pc[p] = "nsW2"
    \/ v = "resourcesCache" /\ pc[p] = "catW1"
    \/ v = "resourcesCacheTime" /\ pc[p] = "catW2"

\* one request is about to write v while another is about to read or write
\* it, and nothing orders the two
DataRace(v) ==
    \E p, q \in Procs : p # q /\ Writing(p, v) /\ (Reading(q, v) \/ Writing(q, v))

\* the runtime's check on maps: a write to a map while another goroutine
\* reads or writes the same map may end the process ("concurrent map read and
\* map write", "concurrent map writes")
Fatal ==
    /\ ~crashed
    /\ DataRace("namespaceCaches") \/ DataRace("namespaceCacheTimes")
    /\ crashed' = TRUE
    /\ UNCHANGED <<now, clientVars, localVars, reqSeq, calls, obs, nsTag, lastOk,
                   catTag, timing, counted, cleared, ioVars>>

\* the steps of GetAPIResources
CatalogStep(p, responses) ==
    \/ CatalogLen(p)
    \/ CatalogTime(p)
    \/ CatalogReturn(p)
    \/ \E resp \in responses : Discover(p, resp)
    \/ CatalogWriteList(p)
    \/ CatalogWriteTime(p)

\* the steps of a namespace scan around GetAPIResources
ScanStep(p) ==
    \/ ReadCache(p)
    \/ ReadCacheTime(p)
    \/ \E first \in ListResponses : CountQuiet(p, first)
    \/ \E second \in ListResponses : CountAllQuiet(p, second)
    \/ NsWriteList(p)
    \/ NsWriteTime(p)

\* the same steps with the process log observed
ScanStepLogged(p) ==
    \/ ReadCache(p)
    \/ ReadCacheTime(p)
    \/ \E first \in ListResponses : CountLogged(p, first)
    \/ \E second \in ListResponses : CountAllLogged(p, second)
    \/ NsWriteList(p)
    \/ NsWriteTime(p)

\* time passes between requests
TickIdle == Tick /\ \A q \in Procs : pc[q] = "idle"

\* requests one after the other: a request starts when none is in flight
CallSequential(ops) ==
    /\ \A q \in Procs : pc[q] = "idle"
    /\ \E op \in ops, n \in Namespaces : Call(1, op, n, MaxRequests)

\* sequential requests through GetResourcesInNamespace
Next ==
    \/ CallSequential({"plain"})
    \/ CatalogStep(1, ScanResponses)
    \/ ScanStep(1)
    \/ Return(1)
    \/ Tick

Spec == Init /\ [][Next]_vars

\* sequential requests through both scan entry points, and clearCache
NextServer ==
    \/ CallSequential({"plain", "callback"})
    \/ CatalogStep(1, ScanResponses)
    \/ ScanStep(1)
    \/ Announce(1)
    \/ Deliver(1)
    \/ Return(1)
    \/ clearCache
    \/ Tick

SpecServer == Init /\ [][NextServer]_vars

\* sequential calls of GetAPIResources against every discovery answer
NextCatalog ==
    \/ CallCatalog(1, MaxRequests)
    \/ CatalogStep(1, DiscoveryResponses)
    \/ Return(1)
    \/ Tick

SpecCatalog == Init /\ [][NextCatalog]_vars

\* scans of one namespace, one request after the other
CallDefault(ops) ==
    /\ \A q \in Procs : pc[q] = "idle"
    /\ \E op \in ops : Call(1, op, "default", MaxRequests)

\* sequential scans of one namespace through both entry points and direct
\* calls of GetAPIResources, the callback and the process log observed
NextScan ==
    \/ CallDefault({"plain", "callback"})
    \/ CallCatalog(1, MaxRequests)
    \/ CatalogStep(1, ScanResponses)
    \/ ScanStepLogged(1)
    \/ Announce(1)
    \/ Deliver(1)
    \/ Return(1)
    \/ TickIdle

SpecScan == Init /\ [][NextScan]_vars

\* the discovery answers the concurrent requests run against
RacingResponses == { [lists |-> <<CoreList>>, err |-> "nil"] }

\* concurrent requests: the HTTP server runs every request on its own
\* goroutine, and the Client takes no lock
NextConc ==
    \/ \E p \in Procs : Call(p, "plain", "default", MaxRacing)
    \/ \E p \in Procs : CatalogStep(p, RacingResponses)
    \/ \E p \in Procs : ScanStep(p)
    \/ \E p \in Procs : Return(p)
    \/ Fatal
    \/ Tick

SpecConc == Init /\ [][NextConc]_vars

----------------------------------------------------------------------------
(* Server.getDebugStream: the handler, its channel and its scan goroutine *)

\* the go statement has run: the scan goroutine of the stream was started
Spawned == stream.handler # "none" /\ reqSeq > stream.base

\* getDebugStream up to the go statement: the "start" event is written and
\* flushed, the channel is made
StreamOpen(n) ==
    /\ ~crashed
    /\ server.debug
    /\ stream.handler = "none"
    /\ \A q \in Procs : pc[q] = "idle"
    /\ reqSeq < MaxRequests
    /\ stream' = [stream EXCEPT !.handler = "streaming", !.ns = n, !.base = reqSeq,
                                !.written = <<"streamStart">>]
    /\ debugOutput' = NoChan
    /\ UNCHANGED <<now, clientVars, localVars, ghostVars, outbox, events,
                   warnings, countLog, listLog, serverVars>>

\* the goroutine enters GetResourcesInNamespaceWithCallback.  The stream is
\* enabled by DEBUG=true, 1 or yes; the scan's debugMode is on with DEBUG=true
\* only
StreamSpawn ==
    /\ server.k8sClient
    /\ stream.handler = "streaming"
    /\ reqSeq = stream.base
    /\ Call(1, "callback", stream.ns, MaxRequests)

\* StreamTimeout with the time.After case lost: the send waits for room
StreamTimeoutNever(p) == FALSE

\* debugCallback, the channel having room: case debugOutput <- message
StreamSend(p) ==
    /\ ~crashed
    /\ outbox[p] # <<>>
    /\ Len(debugOutput.buf) < debugOutputCap
    /\ debugOutput' = [debugOutput EXCEPT !.buf = Append(@, Head(outbox[p])),
                                          !.seq = Append(@, Len(events[p]) + 1)]
    /\ events' = [events EXCEPT ![p] = Append(@, Head(outbox[p]))]
    /\ outbox' = [outbox EXCEPT ![p] = Tail(@)]
    /\ UNCHANGED <<now, clientVars, localVars, ghostVars, warnings, countLog, listLog, serverVars, stream>>

\* debugCallback, the channel full for a second: case <-time.After; the
\* message is given up and the callback returns
StreamTimeout(p) ==
    /\ ~crashed
    /\ outbox[p] # <<>>
    /\ Len(debugOutput.buf) = debugOutputCap
    /\ stream' = [stream EXCEPT !.dropped = @ + 1]
    /\ events' = [events EXCEPT ![p] = Append(@, Head(outbox[p]))]
    /\ outbox' = [outbox EXCEPT ![p] = Tail(@)]
    /\ UNCHANGED <<now, clientVars, localVars, ghostVars, warnings, countLog, listLog, serverVars,
                   debugOutput>>

\* the goroutine after the scan: debugOutput <- the error or "Discovery
\* complete", a send that waits for room.  The channel stays open: the
\* deferred close is a later step
StreamFinal(p) ==
    /\ ~crashed
    /\ pc[p] = "done"
    /\ req[p].op = "callback"
    /\ outbox[p] = <<>>
    /\ ~stream.sent
    /\ Len(debugOutput.buf) < debugOutputCap
    /\ debugOutput' =
          [debugOutput EXCEPT
              !.buf = Append(@, Msg(IF ret[p].kind = "error" THEN "error" ELSE "final",
                                    Len(ret[p].list), 0, calls[p].count)),
              !.seq = Append(@, Len(events[p]) + 1)]
    /\ stream' = [stream EXCEPT !.sent = TRUE]
    /\ UNCHANGED <<now, clientVars, localVars, ghostVars, outbox, events,
                   warnings, countLog, listLog, serverVars>>

\* defer close(debugOutput): the goroutine's function returns after its last
\* send and the channel is closed
StreamClose(p) ==
    /\ ~crashed
    /\ pc[p] = "done"
    /\ req[p].op = "callback"
    /\ stream.sent
    /\ ~debugOutput.closed
    /\ debugOutput' = [debugOutput EXCEPT !.closed = TRUE]
    /\ UNCHANGED <<now, clientVars, localVars, ghostVars, outbox, events,
                   warnings, countLog, listLog, serverVars, stream>>

\* the goroutine ends
StreamReturn(p) == debugOutput.closed /\ Return(p)

\* StreamRecv with the newest buffered message received first
StreamRecvNewest ==
    /\ ~crashed
    /\ stream.handler = "streaming"
    /\ Spawned
    /\ debugOutput.buf # <<>>
    /\ debugOutput' = [debugOutput EXCEPT
                          !.buf = SubSeq(@, 1, Len(@) - 1),
                          !.seq = SubSeq(@, 1, Len(@) - 1)]
    /\ stream' = IF stream.ctxDone
                 THEN [stream EXCEPT !.handler = "returned"]
                 ELSE [stream EXCEPT
                          !.handler = "writing",
                          !.msg = <<[type |-> debugOutput.buf[Len(debugOutput.buf)].type,
                                     place |-> debugOutput.seq[Len(debugOutput.seq)]]>>]
    /\ UNCHANGED <<now, clientVars, localVars, ghostVars, outbox, events,
                   warnings, countLog, listLog, serverVars>>

\* for msg := range debugOutput and the select of the loop's body: the
\* message is received; with the context done the handler returns, otherwise
\* it goes on to write the message
StreamRecv ==
    /\ ~crashed
    /\ stream.handler = "streaming"
    /\ Spawned
    /\ debugOutput.buf # <<>>
    /\ debugOutput' = [debugOutput EXCEPT !.buf = Tail(@), !.seq = Tail(@)]
    /\ stream' = IF stream.ctxDone
                 THEN [stream EXCEPT !.handler = "returned"]
                 ELSE [stream EXCEPT
                          !.handler = "writing",
                          !.msg = <<[type |-> Head(debugOutput.buf).type,
                                     place |-> Head(debugOutput.seq)]>>]
    /\ UNCHANGED <<now, clientVars, localVars, ghostVars, outbox, events,
                   warnings, countLog, listLog, serverVars>>

\* the default case of the select: the received message is written to the
\* response and flushed, whether or not the context was cancelled since the
\* test
StreamWrite ==
    /\ ~crashed
    /\ stream.handler = "writing"
    /\ stream' = [stream EXCEPT !.handler = "streaming",
                                !.msg = <<>>,
                                !.written = Append(@, stream.msg[1].type),
                                !.order = Append(@, stream.msg[1].place)]
    /\ UNCHANGED <<now, clientVars, localVars, ghostVars, outbox, events,
                   warnings, countLog, listLog, serverVars, debugOutput>>

\* StreamEnd with the close of the channel never seen by the range loop
StreamEndNever == FALSE

\* the range loop ends on the closed, drained channel; the "complete" event
\* is written and flushed
StreamEnd ==
    /\ ~crashed
    /\ stream.handler = "streaming"
    /\ debugOutput.buf = <<>>
    /\ debugOutput.closed
    /\ stream' = [stream EXCEPT !.handler = "completed",
                                !.written = Append(@, "streamComplete")]
    /\ UNCHANGED <<now, clientVars, localVars, ghostVars, outbox, events,
                   warnings, countLog, listLog, serverVars, debugOutput>>

\* the consumer goes away: r.Context() is cancelled
Cancel ==
    /\ ~crashed
    /\ stream.handler \in {"streaming", "writing"}
    /\ Spawned
    /\ ~stream.ctxDone
    /\ stream' = [stream EXCEPT !.ctxDone = TRUE, !.midScan = pc[1] \notin {"idle", "done"}]
    /\ UNCHANGED <<now, clientVars, localVars, ghostVars, outbox, events,
                   warnings, countLog, listLog, serverVars, debugOutput>>

\* the goroutine waits at its last send for room that nobody will make
StreamStuck(p) ==
    /\ pc[p] = "done"
    /\ ~stream.sent
    /\ Len(debugOutput.buf) = debugOutputCap
    /\ stream.handler \in {"returned", "completed"}

\* the stream is over: the handler has returned, and the goroutine has ended
\* or waits for ever
StreamOver ==
    /\ Spawned
    /\ stream.handler \in {"returned", "completed"}
    /\ pc[1] = "idle" \/ StreamStuck(1)

\* the next request: getNamespaceResources for the stream's namespace
PlainAfter ==
    /\ StreamOver
    /\ reqSeq = stream.base + 1
    /\ Call(2, "plain", stream.ns, MaxRequests)

\* the next request: GetAPIResources, as the object lookups call it
CatalogAfter ==
    /\ StreamOver
    /\ reqSeq = stream.base + 1
    /\ CallCatalog(2, MaxRequests)

\* time passes between the stream and the next request, which comes within
\* cacheTTL of the stream's start; the stream's goroutine has ended or waits
\* at its last send
StreamTick ==
    /\ now < MaxTime
    /\ StreamOver
    /\ pc[2] = "idle"
    /\ reqSeq = stream.base + 1
    /\ now + 1 < cacheTTL
    /\ now' = now + 1
    /\ UNCHANGED <<clientVars, localVars, ghostVars, ioVars>>

\* one debug stream: the steps of its handler and of its consumer, the steps
\* of its goroutine, and a namespace request or a catalog call after its scan
NextStream ==
    \/ StreamOpen("default")
    \/ StreamSpawn
    \/ StreamRecv
    \/ StreamWrite
    \/ StreamEnd
    \/ Cancel
    \/ CatalogStep(1, StreamResponses)
    \/ ScanStep(1)
    \/ Announce(1)
    \/ StreamSend(1)
    \/ StreamTimeout(1)
    \/ StreamFinal(1)
    \/ StreamClose(1)
    \/ StreamReturn(1)
    \/ PlainAfter
    \/ CatalogAfter
    \/ CatalogStep(2, StreamResponses)
    \/ ScanStep(2)
    \/ Return(2)
    \/ StreamTick

SpecStream == Init /\ [][NextStream]_vars

\* the stream of a server started with DEBUG=true: the scan's debugMode is on
StreamSpawnDebug == StreamSpawn /\ req'[1].debug

\* the steps of the goroutine of the first request a server gets: the caches
\* are empty, so the scan runs a discovery
StreamGoroutineFirst(p) ==
    \/ ReadCache(p)
    \/ CatalogLen(p)
    \/ \E resp \in StreamResponses : Discover(p, resp)
    \/ CatalogWriteList(p)
    \/ CatalogWriteTime(p)
    \/ Announce(p)
    \/ \E first \in ListResponses : CountQuiet(p, first)
    \/ \E second \in ListResponses : CountAllQuiet(p, second)
    \/ NsWriteList(p)
    \/ NsWriteTime(p)
    \/ StreamSend(p)
    \/ StreamTimeout(p)
    \/ StreamFinal(p)
    \/ StreamClose(p)
    \/ StreamReturn(p)

\* one debug stream of a server started with DEBUG=true, from the request to
\* the return of its handler and the end of its goroutine
NextStreamOnly ==
    \/ StreamOpen("default")
    \/ StreamSpawnDebug
    \/ StreamRecv
    \/ StreamWrite
    \/ StreamEnd
    \/ Cancel
    \/ StreamGoroutineFirst(1)

\* the runtime schedules the handler and the goroutine whenever they can take
\* a step, every remote call of the scan returns or times out, and a write to
\* the response returns.  The consumer need not go away: Cancel is not fair
SpecStreamFair ==
    /\ Init
    /\ [][NextStreamOnly]_vars
    /\ WF_vars(StreamSpawnDebug \/ StreamRecv \/ StreamWrite \/ StreamEnd)
    /\ WF_vars(StreamGoroutineFirst(1))

----------------------------------------------------------------------------
(* The Server's request handlers *)

Handlers == {"getNamespaces", "getNamespaceResources", "getDebugStream",
             "getResourceObjects", "getObjectDetails", "getRawObjectDetails",
             "exportResourcesCSV"}

\* the handlers that call GetResourcesInNamespace
ScanHandlers == {"getNamespaceResources", "exportResourcesCSV"}

\* the handlers that look objects up: GetResourceObjects, GetResourceObject
\* and GetRawResourceObject start with GetAPIResources
LookupHandlers == {"getResourceObjects", "getObjectDetails", "getRawObjectDetails"}

\* the filters a namespace-resources request may carry: search as the URL
\* holds it (a whole name, or part of a name in another case), populated=true,
\* apiGroup
Queries ==
    [ns : {"default"}, search : {"", "pods", "Po"}, populated : BOOLEAN,
     apiGroup : {<<>>, <<"apps">>, <<"v1">>}]

\* search := strings.ToLower(r.URL.Query().Get("search"))
LoweredSearch(q) == ToLower(Chars(q.search))

\* strings.Contains(strings.ToLower(resource.Name), search) ||
\* strings.Contains(strings.ToLower(resource.Kind), search)
SearchMatches(resource, search) ==
    \/ StringsContains(ToLower(Spell(resource.Name)), search)
    \/ StringsContains(ToLower(Chars(resource.Kind)), search)

\* KeepFiltered with populated=true keeping the empty resource types
KeepFilteredEmptyOnly(resource, q) ==
    /\ ~(q.populated /\ resource.Count > 0)
    /\ ~(q.apiGroup # <<>> /\ resource.APIVersion # q.apiGroup)
    /\ LoweredSearch(q) = <<>> \/ SearchMatches(resource, LoweredSearch(q))

\* the filters of getNamespaceResources: the three continue statements
KeepFiltered(resource, q) ==
    /\ ~(q.populated /\ resource.Count = 0)
    /\ ~(q.apiGroup # <<>> /\ resource.APIVersion # q.apiGroup)
    /\ LoweredSearch(q) = <<>> \/ SearchMatches(resource, LoweredSearch(q))

\* filtered: the resources appended in the loop of getNamespaceResources
FilterResources(list, q) == SelectSeq(list, LAMBDA resource : KeepFiltered(resource, q))

\* totalObjects: the sum of every resource's Count, filtered out or not
RECURSIVE TotalObjects(_, _)
TotalObjects(list, k) ==
    IF k > Len(list) THEN 0 ELSE list[k].Count + TotalObjects(list, k + 1)

StatusOK == 200
StatusNotFound == 404
StatusInternalServerError == 500
StatusServiceUnavailable == 503

\* the router hands a request to its handler
Accept(h, n) ==
    /\ ~crashed
    /\ http.phase = "none"
    /\ \A q \in Procs : pc[q] = "idle"
    /\ http' = [NoHttp EXCEPT !.handler = h, !.phase = "accepted",
                              !.query = [NoQuery EXCEPT !.ns = n], !.base = reqSeq]
    /\ UNCHANGED <<now, clientVars, localVars, ghostVars, outbox, events,
                   warnings, countLog, listLog, streamVars, server>>

\* if s.k8sClient == nil: 503 "No Kubernetes connection".  Every handler but
\* getDebugStream starts with it
CheckClient ==
    /\ ~crashed
    /\ http.phase = "accepted"
    /\ http.handler # "getDebugStream"
    /\ http' = IF server.k8sClient
               THEN [http EXCEPT !.phase = "calling"]
               ELSE [http EXCEPT !.phase = "responded",
                                 !.status = StatusServiceUnavailable]
    /\ UNCHANGED <<now, clientVars, localVars, ghostVars, outbox, events,
                   warnings, countLog, listLog, streamVars, server>>

\* getDebugStream: if !s.debug: 404 "Debug mode not enabled"
StreamRefuse ==
    /\ ~crashed
    /\ http.phase = "accepted"
    /\ http.handler = "getDebugStream"
    /\ ~server.debug
    /\ http' = [http EXCEPT !.phase = "responded", !.status = StatusNotFound]
    /\ UNCHANGED <<now, clientVars, localVars, ghostVars, outbox, events,
                   warnings, countLog, listLog, streamVars, server>>

\* getDebugStream of a server without a client, up to the go statement: there
\* is no nil test; the headers are set, the start event is written and
\* flushed, which begins the response with status 200, the channel is made
\* and the goroutine is started
StreamBegin ==
    /\ ~crashed
    /\ http.phase = "accepted"
    /\ http.handler = "getDebugStream"
    /\ server.debug
    /\ ~server.k8sClient
    /\ stream.handler = "none"
    /\ http' = [http EXCEPT !.phase = "streaming", !.status = StatusOK]
    /\ stream' = [stream EXCEPT !.handler = "streaming", !.ns = http.query.ns,
                                !.base = reqSeq, !.written = <<"streamStart">>]
    /\ debugOutput' = NoChan
    /\ UNCHANGED <<now, clientVars, localVars, ghostVars, outbox, events,
                   warnings, countLog, listLog, server>>

\* the goroutine calls GetResourcesInNamespaceWithCallback on the nil *Client,
\* whose first statement reads c.namespaceCaches: a nil pointer dereference
\* that nothing recovers.  The panic runs the goroutine's deferred
\* close(debugOutput); the handler waits at its range loop meanwhile
StreamNilPanic ==
    /\ ~crashed
    /\ ~server.k8sClient
    /\ http.phase = "streaming"
    /\ stream.handler = "streaming"
    /\ ~debugOutput.closed
    /\ debugOutput' = [debugOutput EXCEPT !.closed = TRUE]
    /\ UNCHANGED <<now, clientVars, localVars, ghostVars, outbox, events,
                   warnings, countLog, listLog, serverVars, stream>>

\* the runtime ends the process after the deferred calls of the panicking
\* goroutine; the handler, woken by the close, has written its completion
\* event by then or has not
StreamNilExit ==
    /\ ~crashed
    /\ ~server.k8sClient
    /\ http.phase = "streaming"
    /\ debugOutput.closed
    /\ crashed' = TRUE
    /\ UNCHANGED <<now, clientVars, localVars, reqSeq, calls, obs, nsTag, lastOk,
                   catTag, timing, counted, cleared, outbox, events, warnings, countLog, listLog,
                   streamVars, serverVars>>

\* s.k8sClient.GetResourcesInNamespace(namespace)
ScanCall ==
    /\ http.phase = "calling"
    /\ http.handler \in ScanHandlers
    /\ reqSeq = http.base
    /\ Call(1, "plain", http.query.ns, MaxRequests)

\* s.k8sClient.GetResourceObjects and the other lookups: GetAPIResources first
LookupCall ==
    /\ http.phase = "calling"
    /\ http.handler \in LookupHandlers
    /\ reqSeq = http.base
    /\ CallCatalog(1, MaxRequests)

\* getNamespaceResources after the scan: 500 with the error's text, or the
\* filters read from the query, the filtered list and the total
RespondResources(q) ==
    /\ ~crashed
    /\ http.phase = "calling"
    /\ http.handler = "getNamespaceResources"
    /\ reqSeq > http.base
    /\ pc[1] = "done"
    /\ q.ns = http.query.ns
    /\ http' = IF ret[1].kind = "error"
               THEN [http EXCEPT !.phase = "responded",
                                 !.status = StatusInternalServerError]
               ELSE [http EXCEPT !.phase = "responded", !.status = StatusOK,
                                 !.query = q,
                                 !.resources = FilterResources(ret[1].list, q),
                                 !.totalObjects = TotalObjects(ret[1].list, 1)]
    /\ UNCHANGED <<now, clientVars, localVars, ghostVars, outbox, events,
                   warnings, countLog, listLog, streamVars, server>>

\* exportResourcesCSV after the scan: 500, or one row for every resource
RespondExport ==
    /\ ~crashed
    /\ http.phase = "calling"
    /\ http.handler = "exportResourcesCSV"
    /\ reqSeq > http.base
    /\ pc[1] = "done"
    /\ http' = IF ret[1].kind = "error"
               THEN [http EXCEPT !.phase = "responded",
                                 !.status = StatusInternalServerError]
               ELSE [http EXCEPT !.phase = "responded", !.status = StatusOK,
                                 !.resources = ret[1].list]
    /\ UNCHANGED <<now, clientVars, localVars, ghostVars, outbox, events,
                   warnings, countLog, listLog, streamVars, server>>

\* the object lookups after GetAPIResources: 500 when the catalog, the
\* resource or the object cannot be had, else the objects
RespondLookup(status) ==
    /\ ~crashed
    /\ http.phase = "calling"
    /\ http.handler \in LookupHandlers
    /\ reqSeq > http.base
    /\ pc[1] = "done"
    /\ ret[1].kind = "error" => status = StatusInternalServerError
    /\ http' = [http EXCEPT !.phase = "responded", !.status = status]
    /\ UNCHANGED <<now, clientVars, localVars, ghostVars, outbox, events,
                   warnings, countLog, listLog, streamVars, server>>

\* getNamespaces: the namespace list, or 500
RespondNamespaces(status) ==
    /\ ~crashed
    /\ http.phase = "calling"
    /\ http.handler = "getNamespaces"
    /\ http' = [http EXCEPT !.phase = "responded", !.status = status]
    /\ UNCHANGED <<now, clientVars, localVars, ghostVars, outbox, events,
                   warnings, countLog, listLog, streamVars, server>>

\* the Client call of the handler returns
HandlerReturn == http.phase = "responded" /\ Return(1)

\* the handler returns: the response is complete
Finish ==
    /\ ~crashed
    /\ http.phase = "responded"
    /\ pc[1] = "idle"
    /\ http' = NoHttp
    /\ UNCHANGED <<now, clientVars, localVars, ghostVars, outbox, events,
                   warnings, countLog, listLog, streamVars, server>>

\* requests served one after the other by a server with or without a client.
\* The stream of a server that has a client is SpecStream's; the stream of a
\* server without one ends the process
NextHandlers ==
    \/ \E h \in Handlers : Accept(h, "default")
    \/ CheckClient
    \/ StreamRefuse
    \/ StreamBegin
    \/ StreamNilPanic
    \/ StreamEnd
    \/ StreamNilExit
    \/ ScanCall
    \/ LookupCall
    \/ \E q \in Queries : RespondResources(q)
    \/ RespondExport
    \/ \E status \in {StatusOK, StatusInternalServerError} : RespondLookup(status)
    \/ \E status \in {StatusOK, StatusInternalServerError} : RespondNamespaces(status)
    \/ HandlerReturn
    \/ Finish
    \/ CatalogStep(1, ScanResponses)
    \/ ScanStep(1)
    \/ TickIdle

SpecHandlers == InitAny /\ [][NextHandlers]_vars

----------------------------------------------------------------------------
(* GetResourceObjects, GetResourceObject, GetRawResourceObject: the lookup *)

\* the metrics API serves a resource named pods of its own
MetricsList ==
    [GroupVersion |-> <<"metrics.k8s.io", "/", "v1beta1">>,
     APIResources |-> << APIResource(<<"pods">>, "PodMetrics", <<>>, TRUE) >>]

\* the discovery answers the lookups run against
LookupResponses ==
    {[lists |-> l, err |-> "nil"] :
        l \in {s \in SeqsUpTo({CoreList, AppsList, MetricsList}, MaxLists) : NoRepeat(s)}}
    \cup {[lists |-> <<>>, err |-> "groupFailed"], [lists |-> <<>>, err |-> "other"]}

\* the resource identifiers a request's path may carry
LookupIds ==
    { <<"pods">>, <<"pods", ".", "metrics.k8s.io">>, <<"deployments">>,
      <<"deployments", ".", "apps">>, <<"nodes">>, <<"widgets">> }

\* the loop over the catalog: the first resource that is namespaced and whose
\* FullName or Name is the identifier; empty for targetResource == nil
FindTarget(list, identifier) ==
    LET hits == {k \in 1..Len(list) :
                    /\ list[k].FullName = identifier \/ list[k].Name = identifier
                    /\ list[k].Namespaced}
    IN  IF hits = {} THEN <<>>
        ELSE <<list[CHOOSE k \in hits : \A j \in hits : k <= j]>>

\* the router hands a lookup request to its handler
AcceptLookup(h, identifier) ==
    /\ ~crashed
    /\ http.phase = "none"
    /\ \A q \in Procs : pc[q] = "idle"
    /\ reqSeq < MaxRequests
    /\ http' = [NoHttp EXCEPT !.handler = h, !.phase = "accepted",
                              !.query = [NoQuery EXCEPT !.ns = "default"],
                              !.base = reqSeq, !.identifier = identifier]
    /\ UNCHANGED <<now, clientVars, localVars, ghostVars, outbox, events,
                   warnings, countLog, listLog, streamVars, server>>

\* the lookup after GetAPIResources: its error is answered with 500; without
\* a target "resource not found or not namespaced" is answered with 500;
\* with one, the List or Get call on it gives the objects or an error
RespondTarget(status) ==
    /\ ~crashed
    /\ http.phase = "calling"
    /\ http.handler \in LookupHandlers
    /\ reqSeq > http.base
    /\ pc[1] = "done"
    /\ LET target == IF ret[1].kind = "error" THEN <<>>
                     ELSE FindTarget(ret[1].list, http.identifier)
       IN  /\ target = <<>> => status = StatusInternalServerError
           /\ http' = [http EXCEPT !.phase = "responded", !.status = status,
                                   !.target = target]
    /\ UNCHANGED <<now, clientVars, localVars, ghostVars, outbox, events,
                   warnings, countLog, listLog, streamVars, server>>

\* object lookups one after the other
NextLookup ==
    \/ \E h \in LookupHandlers, identifier \in LookupIds : AcceptLookup(h, identifier)
    \/ CheckClient
    \/ LookupCall
    \/ CatalogStep(1, LookupResponses)
    \/ \E status \in {StatusOK, StatusInternalServerError} : RespondTarget(status)
    \/ HandlerReturn
    \/ Finish

SpecLookup == Init /\ [][NextLookup]_vars

----------------------------------------------------------------------------
(* The age of the catalog behind a cached namespace entry *)

\* the clock of the runs that measure that age: two TTLs and a minute
MaxClock == 11

\* the discovery answer those runs get
StaleResponses == { [lists |-> <<CoreList>>, err |-> "nil"] }

\* time passes, up to MaxClock
TickStale ==
    /\ now < MaxClock
    /\ (\A p \in Procs : pc[p] = "idle") \/ (\E p \in Procs : pc[p] \in RemotePcs)
    /\ now' = now + 1
    /\ UNCHANGED <<clientVars, localVars, ghostVars, ioVars>>

\* the steps of a namespace scan in a cluster where every resource type
\* holds one object
ScanStepStale(p) ==
    \/ ReadCache(p)
    \/ ReadCacheTime(p)
    \/ CountQuiet(p, ListOk(FALSE, 1))
    \/ NsWriteList(p)
    \/ NsWriteTime(p)

\* sequential requests through GetResourcesInNamespace on the long clock, the
\* history of catalog fetch times kept
NextStale ==
    \/ CallSequential({"plain"})
    \/ CatalogStep(1, StaleResponses)
    \/ ScanStepStale(1)
    \/ Return(1)
    \/ TickStale

SpecStale == InitTimed /\ [][NextStale]_vars

----------------------------------------------------------------------------
(* Properties *)

HasCount(list) == \E k \in 1..Len(list) : list[k].Count > 0

NamesSkipped(list) == \E k \in 1..Len(list) : list[k].Name \in skipResources

\* C1: a call for a namespace whose entry is younger than the TTL, made
\* after a call for that namespace has returned a list, returns that same
\* list and makes no discovery call, no count call and no list call.
C1_HitReturnsSameList ==
    \A p \in Procs :
        (pc[p] = "done" /\ obs[p].entry = "fresh" /\ lastOk[req[p].ns].ok)
        => /\ ret[p].kind = "hit"
           /\ ret[p].list = lastOk[req[p].ns].list
           /\ calls[p] = NoCalls

C1_Witness ==
    \E p \in Procs :
        /\ pc[p] = "done" /\ obs[p].entry = "fresh" /\ lastOk[req[p].ns].ok
        /\ ret[p].kind = "hit" /\ HasCount(ret[p].list)

\* what a completed fresh scan leaves: one count call per filtered resource
\* type, at most one discovery call, and an entry for the namespace holding
\* the returned list under a timestamp newer than the one found
FreshScanDone(p) ==
    /\ ret[p].kind = "scan"
    /\ calls[p].count = Len(FilterNamespaced(req[p].op, resources[p]))
    /\ calls[p].disc <= 1
    /\ req[p].ns \in DOMAIN namespaceCaches
    /\ req[p].ns \in DOMAIN namespaceCacheTimes
    /\ namespaceCaches[req[p].ns] = ret[p].list
    /\ namespaceCacheTimes[req[p].ns] > obs[p].stamp

\* C2: a call that finds the namespace's entry at age >= TTL performs exactly
\* one fresh scan and leaves an entry with a strictly newer timestamp.
C2_StaleAlwaysRescans ==
    \A p \in Procs :
        (pc[p] = "done" /\ obs[p].entry = "stale") => FreshScanDone(p)

\* C3: once clearCache has returned, the catalog snapshot and every
\* namespace entry are gone, and the next call for any namespace is not
\* served from the cache.
C3_ClearCacheDropsEverything ==
    /\ cleared => /\ Len(resourcesCache) = 0
                  /\ DOMAIN namespaceCaches = {}
                  /\ DOMAIN namespaceCacheTimes = {}
    /\ \A p \in Procs :
          (pc[p] = "done" /\ obs[p].afterClear) => ret[p].kind # "hit"

\* C4: a request served from the cache has read the list and the timestamp
\* that one and the same scan wrote.
C4_HitSeesOneEntry ==
    \A p \in Procs :
        (pc[p] = "done" /\ ret[p].kind = "hit") => obs[p].listBy = obs[p].timeBy

\* C5: when every request has finished, each namespace's stored list and
\* stored timestamp were written by the same scan.
C5_SettledEntryFromOneScan ==
    ((\A p \in Procs : pc[p] = "idle") /\ ~crashed)
    => \A n \in Namespaces : nsTag[n].listBy = nsTag[n].timeBy

\* C6: a request served from the cache returns a list whose scan finished
\* (stored its timestamp) less than TTL before the hit.
C6_HitNeverStale ==
    \A p \in Procs :
        (pc[p] = "done" /\ ret[p].kind = "hit")
        => obs[p].hitAt - obs[p].listEnd < cacheTTL

\* request p is past the cache check and scanning its namespace
Scanning(p) == pc[p] \in {"catLen", "catTime", "catRet", "discover", "catW1",
                          "catW2", "announce", "count", "countAll", "nsW1", "nsW2"}

\* C7: at most one scan of a namespace runs at a time.
C7_OneScanPerNamespace ==
    \A p, q \in Procs :
        (p # q /\ Scanning(p) /\ Scanning(q)) => req[p].ns # req[q].ns

\* C8: no request writes a shared field of the Client while another request
\* reads or writes the same field.
C8_NoDataRace == \A v \in SharedFields : ~DataRace(v)

\* C9: no deny-listed resource name is handed to countResourceObjects, and
\* none appears in a cached or returned list.
C9_DenyListNeverCounted ==
    /\ counted \cap skipResources = {}
    /\ \A n \in DOMAIN namespaceCaches : ~NamesSkipped(namespaceCaches[n])
    /\ \A p \in Procs : ~NamesSkipped(ret[p].list)

\* the groupVersion string a ResourceInfo came from
GroupVersionOf(info) ==
    IF info.APIGroup = <<>> THEN info.APIVersion
    ELSE info.APIGroup \o <<"/">> \o info.APIVersion

\* a returned catalog as <<groupVersion, name>> pairs
Returned(list) == [k \in 1..Len(list) |-> <<GroupVersionOf(list[k]), list[k].Name>>]

NoSlash(resource) == \A k \in 1..Len(resource.Name) : resource.Name[k] # "/"

\* the resources one discovered list names, subresources left out
Listed(resourceList) ==
    LET kept == SelectSeq(resourceList.APIResources, NoSlash)
    IN  [k \in 1..Len(kept) |-> <<resourceList.GroupVersion, kept[k].Name>>]

\* the resources all discovered lists name, in discovery order
RECURSIVE ListedAll(_, _)
ListedAll(lists, k) ==
    IF k > Len(lists) THEN <<>> ELSE Listed(lists[k]) \o ListedAll(lists, k + 1)

\* a groupVersion string of the form "version" or "group/version"
WellFormed(gv) == Cardinality({k \in 1..Len(gv) : gv[k] = "/"}) <= 1

\* the same, over the lists whose groupVersion is well-formed
RECURSIVE ListedWellFormed(_, _)
ListedWellFormed(lists, k) ==
    IF k > Len(lists) THEN <<>>
    ELSE (IF WellFormed(lists[k].GroupVersion) THEN Listed(lists[k]) ELSE <<>>)
         \o ListedWellFormed(lists, k + 1)

PartialDiscovery(p) ==
    /\ pc[p] = "done"
    /\ obs[p].resp.err = "groupFailed"
    /\ Len(obs[p].resp.lists) >= 1

\* C10 as stated: after a discovery that reports failed groups and returns
\* at least one list, GetAPIResources returns no error and exactly the
\* resources of the returned lists, subresources left out, in discovery order.
C10_PartialReturnsAllLists ==
    \A p \in Procs :
        PartialDiscovery(p)
        => /\ ret[p].kind = "catalog"
           /\ Returned(ret[p].list) = ListedAll(obs[p].resp.lists, 1)

\* C10 amended: ... exactly the resources of the returned lists whose
\* groupVersion string is well-formed; a list whose groupVersion does not
\* parse is skipped.
C10_PartialReturnsParsedLists ==
    \A p \in Procs :
        PartialDiscovery(p)
        => /\ ret[p].kind = "catalog"
           /\ Returned(ret[p].list) = ListedWellFormed(obs[p].resp.lists, 1)

C10_Witness ==
    \E p \in Procs :
        /\ PartialDiscovery(p)
        /\ obs[p].resp.lists = <<AppsList, CoreList>>
        /\ Len(ret[p].list) = 4

FullNames(list) == [k \in 1..Len(list) |-> list[k].FullName]

\* discovery reported failed groups and returned no list at all
EmptyDiscovery(p) ==
    /\ pc[p] = "done"
    /\ obs[p].resp.err = "groupFailed"
    /\ Len(obs[p].resp.lists) = 0

\* C11: after a discovery that reports failed groups and returns no list,
\* GetAPIResources returns no error and the five fallback entries pods,
\* services, configmaps, secrets, deployments.apps, all namespaced.
C11_FallbackSet ==
    \A p \in Procs :
        (EmptyDiscovery(p) /\ req[p].op = "catalog")
        => /\ ret[p].kind = "catalog"
           /\ ret[p].err = NoErr
           /\ FullNames(ret[p].list) =
                  << <<"pods">>, <<"services">>, <<"configmaps">>, <<"secrets">>,
                     <<"deployments", ".", "apps">> >>
           /\ \A k \in 1..Len(ret[p].list) : ret[p].list[k].Namespaced

C11_Witness ==
    \E p \in Procs :
        /\ EmptyDiscovery(p) /\ req[p].op = "catalog"
        /\ Len(ret[p].list) = 5

\* C12: whatever discovery answers, GetAPIResources returns a resource set
\* and no error (the fallback set is always available).
C12_NeverFailsWhileFallbackPossible ==
    \A p \in Procs :
        (pc[p] = "done" /\ req[p].op = "catalog" /\ obs[p].resp.err # "none")
        => /\ ret[p].kind = "catalog"
           /\ ret[p].err = NoErr

ScanOps == {"plain", "callback"}

Names(list) == [k \in 1..Len(list) |-> list[k].Name]

\* request p has finished a cache-miss scan whose catalog call succeeded
MissDone(p) ==
    /\ pc[p] = "done" /\ outbox[p] = <<>>
    /\ req[p].op \in ScanOps
    /\ ret[p].kind # "hit"
    /\ obs[p].resp.err # "other"

\* C13: a cache-miss scan whose catalog call succeeded returns no error and
\* one entry per filtered resource type, whatever count calls failed: every
\* type has been counted, and a type whose count call failed has count 0.
C13_CountFailureNeverAborts ==
    \A p \in Procs :
        MissDone(p)
        => /\ ret[p].kind = "scan"
           /\ ret[p].err = NoErr
           /\ Names(ret[p].list) = Names(FilterNamespaced(req[p].op, resources[p]))
           /\ Len(countLog[p]) = Len(ret[p].list)
           /\ calls[p].count = Len(ret[p].list)
           /\ \A k \in 1..Len(ret[p].list) :
                 countLog[p][k] # NoErr => ret[p].list[k].Count = 0

C13_Witness ==
    \E p \in Procs :
        /\ MissDone(p)
        /\ Len(countLog[p]) = 3
        /\ countLog[p][2] # NoErr
        /\ countLog[p][3] = NoErr
        /\ ret[p].list[1].Count > 0

\* permission-denied and method-not-allowed errors
Denied(err) == err \in {ErrForbidden, ErrMethod}

WarningsFor(p, name) == Cardinality({j \in 1..Len(warnings[p]) : warnings[p][j] = name})

\* C14: a count call failing with a permission-denied or method-not-allowed
\* error leaves count 0 and no warning; a count call failing with any other
\* error leaves count 0 and exactly one warning for its resource type.
C14_WarningOnlyForOtherErrors ==
    \A p \in Procs :
        \A k \in 1..Len(countLog[p]) :
            LET err == countLog[p][k]
                entry == namespacedResources[p][k]
            IN  /\ Denied(err) => entry.Count = 0 /\ WarningsFor(p, entry.Name) = 0
                /\ (err # NoErr /\ ~Denied(err))
                   => entry.Count = 0 /\ WarningsFor(p, entry.Name) = 1
                /\ err = NoErr => WarningsFor(p, entry.Name) = 0

C14_Witness ==
    \E p \in Procs :
        /\ pc[p] = "done"
        /\ countLog[p] = <<NoErr, ErrMethod, ErrTimeout>>
        /\ warnings[p] = << <<"deployments">> >>

\* the catalog's namespaced, non-deny-listed entries from position k on
RECURSIVE KeptFrom(_, _)
KeptFrom(catalog, k) ==
    IF k > Len(catalog) THEN <<>>
    ELSE (IF catalog[k].Namespaced /\ catalog[k].Name \notin skipResources
          THEN <<catalog[k]>> ELSE <<>>) \o KeptFrom(catalog, k + 1)

Uncounted(list) == [k \in 1..Len(list) |-> [list[k] EXCEPT !.Count = 0]]

\* C15: the list a scan through GetResourcesInNamespace returns and caches is
\* the catalog's sequence with the namespaced, non-deny-listed types kept:
\* same entries, same order, none twice.
C15_ScanKeepsDiscoveryOrder ==
    \A p \in Procs :
        (pc[p] = "done" /\ req[p].op = "plain" /\ ret[p].kind = "scan")
        => /\ Uncounted(ret[p].list) = KeptFrom(resources[p], 1)
           /\ namespaceCaches[req[p].ns] = ret[p].list

C15_Witness ==
    \E p \in Procs :
        /\ pc[p] = "done" /\ req[p].op = "plain" /\ ret[p].kind = "scan"
        /\ Len(ret[p].list) = 2
        /\ Len(resources[p]) = 4

\* request p, made with a callback, found the namespace's entry within the TTL
CallbackOnFresh(p) ==
    /\ pc[p] = "done" /\ outbox[p] = <<>>
    /\ req[p].op = "callback"
    /\ obs[p].entry = "fresh"
    /\ lastOk[req[p].ns].ok

\* C16: a call with a callback that finds the namespace's entry within the
\* TTL invokes the callback exactly once, with "Using cached data", makes no
\* discovery and no count call, and returns the cached list.
C16_HitCallsBackOnce ==
    /\ \A p \in Procs :
          CallbackOnFresh(p)
          => /\ Len(events[p]) = 1
             /\ events[p][1].type = "cached"
             /\ events[p][1].n = Len(ret[p].list)
             /\ calls[p] = NoCalls
             /\ ret[p].kind = "hit"
             /\ ret[p].list = namespaceCaches[req[p].ns]
             /\ ret[p].list = lastOk[req[p].ns].list
    /\ \A p \in Procs :
          obs[p].entry = "fresh" => Len(events[p]) + Len(outbox[p]) <= 1

C16_Witness ==
    \E p \in Procs :
        /\ CallbackOnFresh(p)
        /\ Len(events[p]) = 1
        /\ HasCount(ret[p].list)
        /\ now > 0

TypesOf(e) == [k \in 1..Len(e) |-> e[k].type]

Occurrences(e, type) == Cardinality({k \in 1..Len(e) : e[k].type = type})

\* request p has finished a cache-miss scan made with a callback
CallbackScanDone(p) ==
    /\ pc[p] = "done" /\ outbox[p] = <<>>
    /\ req[p].op = "callback"
    /\ ret[p].kind = "scan"

\* C17: the callback of a successful cache-miss scan is told, in this order:
\* the scan start; the catalog, with the number of discovered types; the
\* per-resource and progress reports, in counting order; and last, after the
\* final count call has returned, the completion with the number of resource
\* types.  Start, catalog and completion are each reported once.
C17_MilestonesInOrder ==
    \A p \in Procs :
        CallbackScanDone(p)
        => LET e == events[p]
               last == Len(e)
           IN  /\ last >= 4
               /\ e[1].type = "start"
               /\ e[2].type = "catalog" /\ e[2].n = Len(resources[p])
               /\ e[3].type = "counting" /\ e[3].n = Len(ret[p].list)
               /\ \A k \in 4..(last - 1) :
                     /\ e[k].type \in {"resource", "denied", "found", "progress"}
                     /\ e[k].k \in 1..Len(ret[p].list)
                     /\ k > 4 => e[k - 1].k <= e[k].k
               /\ e[last].type = "complete"
               /\ e[last].n = Len(ret[p].list)
               /\ e[last].at = Len(ret[p].list)
               /\ \A type \in {"start", "catalog", "counting", "complete"} :
                     Occurrences(e, type) = 1

C17_Witness ==
    \E p \in Procs :
        /\ CallbackScanDone(p)
        /\ req[p].debug
        /\ Occurrences(events[p], "found") = 1
        /\ Occurrences(events[p], "denied") >= 1
        /\ Occurrences(events[p], "progress") = 1
        /\ Len(ret[p].list) = 3

\* the callback scan of request p is under way: it has statements left to run
\* or a message left to hand to its callback
ScanUnderWay(p) ==
    /\ req[p].op = "callback"
    /\ pc[p] \notin {"idle", "done"} \/ outbox[p] # <<>>

\* what the goroutine of request p can do by itself, whatever the handler and
\* the consumer do
ScanAhead(p) ==
    \/ CatalogStep(p, StreamResponses)
    \/ ScanStep(p)
    \/ Announce(p)
    \/ StreamSend(p)
    \/ StreamTimeout(p)

\* the channel is full and the scan has a message for it
FullAndEmitting(p) ==
    /\ Len(debugOutput.buf) = debugOutputCap
    /\ outbox[p] # <<>>

\* C18: a slow or absent consumer of the debug stream never blocks the scan.
\* While the scan is under way the goroutine always has a step of its own to
\* take; with the 100-slot channel full and a message to emit, that step is
\* giving the message up, never the send; and the scan ends with one
\* countResourceObjects call made for every namespaced resource type and the
\* list stored, however many messages were given up.
C18_ConsumerNeverBlocksScan ==
    /\ ScanUnderWay(1) => ENABLED ScanAhead(1)
    /\ FullAndEmitting(1) => ENABLED StreamTimeout(1) /\ ~ENABLED StreamSend(1)
    /\ (pc[1] = "done" /\ req[1].op = "callback" /\ ret[1].kind = "scan")
       => /\ calls[1].count = Len(FilterNamespaced("callback", resources[1]))
          /\ Len(ret[1].list) = calls[1].count
          /\ namespaceCaches[req[1].ns] = ret[1].list

\* nobody has read the stream: the channel filled up during the counting loop,
\* a progress report of the loop was given up, and the scan has ended
C18_Witness ==
    /\ pc[1] = "done"
    /\ ret[1].kind = "scan"
    /\ stream.handler = "streaming"
    /\ stream.written = <<"streamStart">>
    /\ Len(debugOutput.buf) = debugOutputCap
    /\ stream.dropped >= 2
    /\ \E k \in (debugOutputCap + 1)..Len(events[1]) : events[1][k].type = "progress"
    /\ calls[1].count = MaxTypes

\* the stream's scan, whose consumer went away while it was running
CancelledScan == stream.midScan /\ req[1].op = "callback" /\ req[1].id = stream.base + 1

\* C19: when the consumer's context is cancelled in the middle of a
\* cache-miss scan, the scan goes on by itself; when its catalog lookup
\* succeeded it ends having counted every namespaced resource type and having
\* stored the counted list with the time of its end; and a later getNamespaceResources
\* for that namespace within the TTL returns that list from the cache
\* without any discovery or count call.
C19_CancelledScanFillsCache ==
    /\ (stream.midScan /\ ScanUnderWay(1)) => ENABLED ScanAhead(1)
    /\ (CancelledScan /\ pc[1] = "done" /\ ret[1].kind = "scan")
       => /\ calls[1].count = Len(FilterNamespaced("callback", resources[1]))
          /\ Len(ret[1].list) = calls[1].count
          /\ stream.ns \in DOMAIN namespaceCaches
          /\ namespaceCaches[stream.ns] = ret[1].list
          /\ stream.ns \in DOMAIN namespaceCacheTimes
          /\ nsTag[stream.ns].timeBy = req[1].id
          /\ namespaceCacheTimes[stream.ns] = nsTag[stream.ns].listEnd
          /\ namespaceCacheTimes[stream.ns] <= now
    /\ (CancelledScan /\ pc[1] = "done") => ret[1].kind \in {"scan", "error"}
    /\ (/\ stream.midScan
        /\ pc[2] = "done" /\ req[2].op = "plain" /\ req[2].ns = stream.ns
        /\ nsTag[stream.ns].listBy = stream.base + 1
        /\ now - namespaceCacheTimes[stream.ns] < cacheTTL)
       => /\ ret[2].kind = "hit"
          /\ ret[2].list = namespaceCaches[stream.ns]
          /\ calls[2] = NoCalls

\* the consumer went away mid-scan, the handler returned, and a later plain
\* request for the namespace was served the counted list from the cache
C19_Witness ==
    /\ stream.midScan
    /\ stream.handler = "returned"
    /\ pc[2] = "done" /\ req[2].op = "plain"
    /\ ret[2].kind = "hit"
    /\ Len(ret[2].list) = MaxTypes
    /\ HasCount(ret[2].list)
    /\ now > 0

\* C20: once the consumer's context is cancelled, nothing more is written to
\* its response: no progress event and no completion event.
C20_NoWriteAfterCancel ==
    [][stream'.written # stream.written => ~stream.ctxDone]_vars

FullNameUnique(list) ==
    \A a, b \in 1..Len(list) : a # b => list[a].FullName # list[b].FullName

\* request p has called GetAPIResources and the call ran a discovery that
\* returned a catalog
Discovered(p) ==
    /\ pc[p] = "done"
    /\ req[p].op = "catalog"
    /\ obs[p].resp # NoResp
    /\ ret[p].kind # "error"

\* the places of a discovery response: list l, resource r
Slots(lists) ==
    UNION { { <<l, r>> : r \in 1..Len(lists[l].APIResources) } : l \in 1..Len(lists) }

GroupOf(lists, s) == ParseGroupVersion(lists[s[1]].GroupVersion).Group

NameOf(lists, s) == lists[s[1]].APIResources[s[2]].Name

\* C24: fullName is unique within the snapshot GetAPIResources returns, for
\* every discovery response.
C24_FullNameUnique ==
    \A p \in Procs : Discovered(p) => FullNameUnique(ret[p].list)

\* name alone in the core group, name + "." + group otherwise
ExpectedFullName(name, group) == IF group = <<>> THEN name ELSE name \o <<".">> \o group

\* name alone in the core group, name + " (" + group + ")" otherwise
ExpectedDisplayName(name, group) ==
    IF group = <<>> THEN name ELSE name \o <<" (">> \o group \o <<")">>

\* the places of a discovery response that GetAPIResources converts
Converted(lists) ==
    { s \in Slots(lists) : /\ ParseGroupVersion(lists[s[1]].GroupVersion).ok
                           /\ ~Contains(NameOf(lists, s), "/") }

\* C25: every discovered resource is in the snapshot with its name, its
\* group, fullName = name in the core group and name + "." + group otherwise,
\* and displayName = name in the core group and name + " (" + group + ")"
\* otherwise; and every entry of the snapshot, the fallback's included, has
\* the fullName and displayName of its name and group.
C25_FullNameAndDisplayName ==
    \A p \in Procs :
        Discovered(p)
        => /\ \A s \in Converted(obs[p].resp.lists) :
                 \E k \in 1..Len(ret[p].list) :
                    LET e == ret[p].list[k]
                    IN  /\ e.Name = NameOf(obs[p].resp.lists, s)
                        /\ e.APIGroup = GroupOf(obs[p].resp.lists, s)
                        /\ e.FullName = ExpectedFullName(NameOf(obs[p].resp.lists, s),
                                                         GroupOf(obs[p].resp.lists, s))
                        /\ e.DisplayName =
                              ExpectedDisplayName(NameOf(obs[p].resp.lists, s),
                                                  GroupOf(obs[p].resp.lists, s))
           /\ \A k \in 1..Len(ret[p].list) :
                 LET e == ret[p].list[k]
                 IN  /\ e.FullName = ExpectedFullName(e.Name, e.APIGroup)
                     /\ e.DisplayName = ExpectedDisplayName(e.Name, e.APIGroup)

\* deployments of apps and pods of the core group were discovered together
C25_Witness ==
    \E p \in Procs :
        /\ Discovered(p)
        /\ Len(obs[p].resp.lists) = 2
        /\ \E k \in 1..Len(ret[p].list) :
              /\ ret[p].list[k].FullName = <<"deployments", ".", "apps">>
              /\ ret[p].list[k].DisplayName = <<"deployments", " (", "apps", ")">>
        /\ \E k \in 1..Len(ret[p].list) :
              /\ ret[p].list[k].FullName = <<"pods">>
              /\ ret[p].list[k].DisplayName = <<"pods">>

\* a catalog snapshot is cached and its age is below the TTL
SnapshotFresh == Len(resourcesCache) > 0 /\ now - resourcesCacheTime < cacheTTL

\* C28: with a cached catalog snapshot younger than the TTL, GetAPIResources
\* makes no discovery call and returns the snapshot unchanged: a call stands
\* before its discovery request only when no fresh snapshot is cached, it
\* makes at most one discovery request, and a call that made none returns
\* the cached snapshot.
C28_FreshSnapshotReturned ==
    \A p \in Procs :
        /\ (pc[p] = "discover" /\ calls[p].disc = 0) => ~SnapshotFresh
        /\ calls[p].disc <= 1
        /\ (pc[p] = "done" /\ req[p].op = "catalog" /\ calls[p].disc = 0)
           => /\ SnapshotFresh
              /\ ret[p].kind = "catalog"
              /\ ret[p].list = resourcesCache

\* a call found a snapshot cached some minutes ago and returned it
C28_Witness ==
    \E p \in Procs :
        /\ pc[p] = "done" /\ req[p].op = "catalog"
        /\ calls[p].disc = 0
        /\ ret[p].list = resourcesCache
        /\ Len(ret[p].list) >= 4
        /\ now - resourcesCacheTime = cacheTTL - 1

NoSubresourceIn(list) == \A k \in 1..Len(list) : ~Contains(list[k].Name, "/")

\* the discovery response holds a subresource
HoldsSubresource(lists) == \E s \in Slots(lists) : Contains(NameOf(lists, s), "/")

\* C29: no resource whose name holds a '/' is in the catalog snapshot, in a
\* catalog a call returned, in a namespace's counted list, cached or
\* returned, or among the resources handed to countResourceObjects.
C29_NoSubresourceAnywhere ==
    /\ NoSubresourceIn(resourcesCache)
    /\ \A n \in DOMAIN namespaceCaches : NoSubresourceIn(namespaceCaches[n])
    /\ \A p \in Procs :
          /\ NoSubresourceIn(resources[p])
          /\ NoSubresourceIn(namespacedResources[p])
          /\ NoSubresourceIn(ret[p].list)
    /\ \A name \in counted : ~Contains(name, "/")

\* a scan whose discovery reported pods/log has counted and stored its list
C29_Witness ==
    \E p \in Procs :
        /\ pc[p] = "done" /\ ret[p].kind = "scan"
        /\ obs[p].resp # NoResp
        /\ HoldsSubresource(obs[p].resp.lists)
        /\ <<"pods">> \in counted
        /\ req[p].ns \in DOMAIN namespaceCaches
        /\ namespaceCaches[req[p].ns] = ret[p].list
        /\ Len(resourcesCache) > 0

\* C30: countResourceObjects issues one list request; it issues a second,
\* unbounded one if and only if the first succeeded and its response carries
\* a continuation token, and then returns the second list's item count;
\* otherwise it returns the first response's item count; when either request
\* fails it returns that error and count 0.
C30_CountFollowsContinuation ==
    \A p \in Procs :
        listLog[p].called
        => LET c == listLog[p]
               followUp == c.first.err = NoErr /\ c.first.continue
           IN  /\ c.lists = (IF followUp THEN 2 ELSE 1)
               /\ c.first.err # NoErr => c.err = c.first.err /\ c.count = 0
               /\ (followUp /\ c.second.err # NoErr)
                  => c.err = c.second.err /\ c.count = 0
               /\ (followUp /\ c.second.err = NoErr)
                  => c.err = NoErr /\ c.count = c.second.items
               /\ (c.first.err = NoErr /\ ~c.first.continue)
                  => c.err = NoErr /\ c.count = c.first.items
               /\ calls[p].list >= c.lists

\* a first page that carries a continuation token and no item, followed by a
\* full list with an item
C30_Witness ==
    \E p \in Procs :
        /\ listLog[p].called
        /\ listLog[p].first = ListOk(TRUE, 0)
        /\ listLog[p].second = ListOk(FALSE, MaxItems)
        /\ listLog[p].count = MaxItems
        /\ listLog[p].lists = 2

\* a handler has written its response; its Client call, if it made one, has
\* not returned its locals yet
Responded(h) ==
    /\ http.phase = "responded" /\ http.handler = h
    /\ reqSeq > http.base => pc[1] = "done"

\* the handler of the stream has returned
StreamEnded == stream.handler \in {"returned", "completed"}

\* the handler returned after the range loop: the channel is closed and
\* drained, the goroutine's last message was written, then the completion
\* event
EndedComplete ==
    /\ debugOutput.closed
    /\ debugOutput.buf = <<>>
    /\ Len(stream.written) >= 3
    /\ stream.written[Len(stream.written)] = "streamComplete"
    /\ stream.written[Len(stream.written) - 1] \in {"final", "error"}

\* C21: every progress stream terminates: no handler streams for ever (at
\* every moment there is a later one at which the handler is not streaming,
\* and a handler that has begun leaves "streaming" only by returning), and
\* it returns either from the range loop, after the scan has ended and every
\* buffered message was written, followed by the completion event, or from
\* inside the loop with the consumer gone.
C21_StreamTerminates ==
    /\ []<>(stream.handler \notin {"streaming", "writing"})
    /\ [](stream.handler = "completed" => EndedComplete)
    /\ [](stream.handler = "returned" => stream.ctxDone)

C21_Witness ==
    /\ stream.handler = "completed"
    /\ ~stream.ctxDone
    /\ stream.dropped > 0
    /\ Len(stream.written) > debugOutputCap
    /\ EndedComplete

\* C22: a server started without a Kubernetes client answers every operation
\* that needs the cluster with service unavailable, starts no scan and suffers
\* no fault.
C22_NoClientMeansUnavailable ==
    ~server.k8sClient
    => /\ ~crashed
       /\ reqSeq = 0
       /\ http.phase \in {"none", "accepted", "responded"}
       /\ http.phase = "responded" => http.status = StatusServiceUnavailable

\* C23: a namespace-resources request whose scan failed because discovery
\* failed is answered with service unavailable, as a request to a server
\* without a client is.
C23_DiscoveryFailureMeansUnavailable ==
    (Responded("getNamespaceResources") /\ ret[1].kind = "error")
    => http.status = StatusServiceUnavailable

\* the response to a namespace-resources request that carried these filters
Filtered(search, populated, apiGroup) ==
    /\ Responded("getNamespaceResources")
    /\ http.status = StatusOK
    /\ http.query.search = search
    /\ http.query.populated = populated
    /\ http.query.apiGroup = apiGroup

IsPopulated(resource) == resource.Count > 0

\* C26: with populated=true and no other filter, the response holds the
\* counted resource types with count > 0, every one of them and no other, in
\* the order of the counted list.
C26_PopulatedOnlyKeepsCounted ==
    Filtered("", TRUE, <<>>)
    => http.resources = SelectSeq(ret[1].list, IsPopulated)

\* a populated=true response that left empty types out and kept a populated one
C26_Witness ==
    /\ Filtered("", TRUE, <<>>)
    /\ Len(http.resources) >= 1
    /\ Len(http.resources) < Len(ret[1].list)
    /\ http.totalObjects >= 1

\* C27: with apiGroup=G and no other filter, the response holds exactly the
\* counted resource types whose API group is G.
C27_ApiGroupFilterByGroup ==
    \A group \in {<<"apps">>, <<"v1">>} :
        Filtered("", FALSE, group)
        => http.resources = SelectSeq(ret[1].list, LAMBDA r : r.APIGroup = group)

\* every entry of the cached catalog is as GetAPIResources built it: no count
NoCounts(list) == \A k \in 1..Len(list) : list[k].Count = 0

\* C32: a namespace scan never modifies the catalog snapshot: every entry
\* of c.resourcesCache has Count 0 at all times, and c.resourcesCache changes
\* only in the statement of GetAPIResources that replaces it with the list a
\* discovery has built.
C32_ScanLeavesCatalog ==
    /\ [](NoCounts(resourcesCache))
    /\ [][resourcesCache' # resourcesCache
           => \E p \in Procs : /\ pc[p] = "catW1"
                                /\ pc'[p] = "catW2"
                                /\ resourcesCache' = resources[p]]_vars

C32_Witness ==
    /\ pc[1] = "done"
    /\ ret[1].kind = "scan"
    /\ HasCount(ret[1].list)
    /\ "default" \in DOMAIN namespaceCaches
    /\ HasCount(namespaceCaches["default"])
    /\ Len(resourcesCache) > Len(ret[1].list)
    /\ NoCounts(resourcesCache)
    /\ reqSeq = 2

\* C33: progress reporting is a pure side-channel: a scan through
\* GetResourcesInNamespaceWithCallback returns and caches the list a scan
\* through GetResourcesInNamespace builds from the same catalog: the
\* catalog's namespaced, non-deny-listed types, in the catalog's order.
C33_CallbackScanSameList ==
    \A p \in Procs :
        (pc[p] = "done" /\ req[p].op = "callback" /\ ret[p].kind = "scan")
        => /\ Uncounted(ret[p].list) = Uncounted(FilterNamespaced("plain", resources[p]))
           /\ namespaceCaches[req[p].ns] = ret[p].list

\* the discovery answered with ErrGroupDiscoveryFailed and no list at all:
\* GetAPIResources falls back to coreResources
IsFallback(resp) == resp.err = "groupFailed" /\ Len(resp.lists) = 0

\* C37: the fallback set is never stored in the catalog cache: the discovery
\* step that falls back hands coreResources to its caller, leaves
\* c.resourcesCache and c.resourcesCacheTime as they are and does not go on
\* to the cache update; so the cache never holds the fallback set, and the
\* next call finds what it would have found without the fallback call.
C37_FallbackNeverCached ==
    /\ [](resourcesCache # coreResources)
    /\ [][\A p \in Procs :
            (pc[p] = "discover" /\ pc'[p] # "discover" /\ IsFallback(obs'[p].resp))
            => /\ resources'[p] = coreResources
               /\ pc'[p] \notin {"catW1", "catW2"}
               /\ UNCHANGED <<resourcesCache, resourcesCacheTime>>]_vars

C37_Witness ==
    /\ pc[1] = "done"
    /\ IsFallback(obs[1].resp)
    /\ ret[1].kind = "catalog"
    /\ ret[1].list = coreResources
    /\ Len(resourcesCache) > 0
    /\ resourcesCacheTime = 0
    /\ ~WithinTTL(resourcesCacheTime)

\* C38: an empty discovery result is never served from the catalog cache: a
\* GetAPIResources call that ends while c.resourcesCache is empty has made
\* its remote discovery call, whatever c.resourcesCacheTime says, and a call
\* that made none has returned a list that is not empty.
C38_EmptyCatalogNeverServed ==
    \A p \in Procs :
        (pc[p] = "done" /\ req[p].op = "catalog")
        => /\ Len(resourcesCache) = 0 => calls[p].disc = 1
           /\ calls[p].disc = 0 => (ret[p].kind = "catalog" /\ Len(ret[p].list) > 0)

C38_Witness ==
    /\ pc[1] = "done"
    /\ req[1].op = "catalog"
    /\ req[1].id = 2
    /\ Len(resourcesCache) = 0
    /\ resourcesCacheTime # ZeroTime
    /\ WithinTTL(resourcesCacheTime)
    /\ obs[1].resp.err = "other"
    /\ calls[1].disc = 1

\* request p is a namespace scan whose GetAPIResources call has failed
CatalogFailed(p) ==
    /\ pc[p] = "done"
    /\ req[p].op \in {"plain", "callback"}
    /\ obs[p].resp.err = "other"

\* C39: a namespace scan whose catalog call fails returns that error, makes
\* no countResourceObjects call and no List call, and writes nothing to the
\* namespace cache: the namespace's entry and timestamp are those the scan
\* read when it began (none if it found none), and no entry of any
\* namespace was written by this scan.
C39_FailedScanLeavesCache ==
    \A p \in Procs :
        CatalogFailed(p)
        => /\ ret[p].kind = "error"
           /\ ret[p].err = <<"failed to discover API resources">>
           /\ ret[p].list = <<>>
           /\ calls[p].count = 0
           /\ calls[p].list = 0
           /\ \A n \in Namespaces :
                 nsTag[n].listBy # req[p].id /\ nsTag[n].timeBy # req[p].id
           /\ req[p].ns \in DOMAIN namespaceCaches
                 <=> obs[p].entry = "stale"
           /\ req[p].ns \in DOMAIN namespaceCaches
                 => /\ namespaceCaches[req[p].ns] = cachedResources[p]
                    /\ namespaceCacheTimes[req[p].ns] = obs[p].stamp
                    /\ namespaceCaches[req[p].ns] = lastOk[req[p].ns].list

C39_Witness ==
    \E p \in Procs :
        /\ CatalogFailed(p)
        /\ req[p].op = "callback"
        /\ ret[p].kind = "error"
        /\ obs[p].entry = "stale"
        /\ HasCount(namespaceCaches[req[p].ns])
        /\ namespaceCacheTimes[req[p].ns] = 0

\* C36: for every progress stream the scanning goroutine eventually ends
\* and closes the channel, whatever the consumer does: a goroutine that was
\* started does not stay for ever in front of a channel it has not closed.
C36_GoroutineCloses == []<>(Spawned => debugOutput.closed)

\* the lookup of the request has chosen its target from the catalog
Looked ==
    /\ http.phase = "responded"
    /\ http.handler \in LookupHandlers
    /\ pc[1] = "done"
    /\ ret[1].kind = "catalog"

\* C34: object lookup tries fullName first: when the identifier is the
\* FullName of a namespaced resource of the catalog, the lookup selects a
\* resource of that FullName, whatever is listed before it; only when no
\* FullName matches does it select by plain Name.
C34_FullNameFirst ==
    Looked
    => LET list == ret[1].list
           byFullName == {k \in 1..Len(list) :
                             list[k].Namespaced /\ list[k].FullName = http.identifier}
           byName == {k \in 1..Len(list) :
                         list[k].Namespaced /\ list[k].Name = http.identifier}
       IN  /\ byFullName # {}
              => http.target # <<>> /\ http.target[1].FullName = http.identifier
           /\ (byFullName = {} /\ byName # {})
              => http.target # <<>> /\ http.target[1].Name = http.identifier
           /\ (byFullName = {} /\ byName = {}) => http.target = <<>>

\* the messages of the stream's goroutine that were written to the response,
\* by their places in the order of emission: the callback's messages are
\* events[1], and the goroutine's last message comes after them
WrittenOrder == stream.order

\* C35: progress events reach the consumer in the order the scan emitted
\* them: the response begins with the single start event; the messages
\* written after it are, in this order, messages the goroutine emitted, each
\* at most once (their places in the emission order increase strictly); and
\* the completion event is written once, last, and only by a stream that ran
\* to completion.
C35_StreamKeepsOrder ==
    LET n == Len(WrittenOrder)
        w == stream.written
    IN  /\ stream.handler # "none" => Len(w) >= 1 /\ w[1] = "streamStart"
        /\ Len(w) = (IF stream.handler = "none" THEN 0 ELSE 1) + n
                    + (IF stream.handler = "completed" THEN 1 ELSE 0)
        /\ \A j \in 2..Len(w) : w[j] # "streamStart"
        /\ \A j \in 1..Len(w) :
              w[j] = "streamComplete" <=> (stream.handler = "completed" /\ j = Len(w))
        /\ \A j \in 1..(n - 1) : WrittenOrder[j] < WrittenOrder[j + 1]
        /\ pc[1] # "idle"
           => \A j \in 1..n :
                 /\ WrittenOrder[j] \in 1..(Len(events[1]) + 1)
                 /\ WrittenOrder[j] <= Len(events[1])
                       => w[j + 1] = events[1][WrittenOrder[j]].type
                 /\ WrittenOrder[j] = Len(events[1]) + 1
                       => w[j + 1] \in {"final", "error"} /\ stream.sent

C35_Witness ==
    /\ stream.handler = "completed"
    /\ ~stream.ctxDone
    /\ pc[1] = "done"
    /\ stream.dropped > 0
    /\ Len(WrittenOrder) >= debugOutputCap
    /\ \E j \in 1..(Len(WrittenOrder) - 1) : WrittenOrder[j + 1] > WrittenOrder[j] + 1
    /\ WrittenOrder[Len(WrittenOrder)] = Len(events[1]) + 1

\* a discovery of some request stands between its two cache writes
MidReplace == \E p \in Procs : pc[p] = "catW2"

\* C31: the catalog snapshot is replaced atomically: whenever no
\* GetAPIResources call stands between its write of c.resourcesCache and its
\* write of c.resourcesCacheTime, the stored list and the stored timestamp
\* were written by the same discovery; so it is after all calls settle, and
\* so it is for every caller that reads the cache at such a moment.
C31_CatalogReplacedAtomically ==
    ~MidReplace => catTag.listBy = catTag.timeBy

\* a request served from the namespace cache
ServedFromCache(p) == pc[p] = "done" /\ ret[p].kind = "hit"

\* the times behind a hit of request p: the hit, the entry's timestamp, the
\* time the scan that built the entry was handed its catalog, and the time
\* that catalog was fetched from the cluster
HitTime(p) == obs[p].hitAt
EntryTime(p) == obs[p].stamp
CatalogHandedTime(p) == nsTag[req[p].ns].catRead
CatalogFetchTime(p) == nsTag[req[p].ns].catTime

\* C40 as stated: a namespace-cache hit at time t returns an entry built on a
\* catalog fetched from the cluster later than t - 2 * cacheTTL.
C40_StalenessTwoTTL ==
    \A p \in Procs :
        ServedFromCache(p) => HitTime(p) - CatalogFetchTime(p) < 2 * cacheTTL

\* C40 amended: a namespace-cache hit at time t returns an entry younger than
\* cacheTTL, built by a scan that was handed a catalog younger than cacheTTL;
\* the catalog was fetched later than t - 2 * cacheTTL - d, where d is the
\* time that scan took from being handed the catalog to stamping the entry.
C40_StalenessTwoTTLPlusScan ==
    \A p \in Procs :
        ServedFromCache(p)
        => /\ HitTime(p) - EntryTime(p) < cacheTTL
           /\ CatalogHandedTime(p) - CatalogFetchTime(p) < cacheTTL
           /\ CatalogFetchTime(p) <= CatalogHandedTime(p)
           /\ CatalogHandedTime(p) <= EntryTime(p)
           /\ HitTime(p) - CatalogFetchTime(p)
                 < 2 * cacheTTL + (EntryTime(p) - CatalogHandedTime(p))

C40_Witness ==
    \E p \in Procs :
        /\ ServedFromCache(p)
        /\ HitTime(p) - CatalogFetchTime(p) >= 2 * cacheTTL
        /\ EntryTime(p) > CatalogHandedTime(p)
        /\ HasCount(ret[p].list)

====
